---- MODULE Spec2Model ----
(***************************************************************************)
(* Model of the bridge-engine crate (src-tauri/crates/bridge-engine).      *)
(*                                                                         *)
(* The auction engine is a set of pure functions over Auction values.  A   *)
(* caller (the desktop shell or the HTTP adapter) starts from the empty    *)
(* auction and keeps every Auction value it was handed back.  The model    *)
(* keeps those values in `snaps`; the Vec<AuctionEntry> buffers they own   *)
(* live in `heap`; `last` is the outcome of the most recent operation.     *)
(*                                                                         *)
(* The other engines (bid ordering, play, scoring, deal generation) are    *)
(* pure functions too.  Each has a specification of its own whose initial  *)
(* states draw the arguments into `req` and whose action applies the       *)
(* function and leaves its result in `last`.  generate_deal is a loop: its *)
(* locals live in `frame` and each pass of the loop is a step.  A caller    *)
(* that calls generate_deal again and again keeps what each call returned  *)
(* in `log`.                                                               *)
(***************************************************************************)
EXTENDS Integers, Sequences, FiniteSets, TLC

VARIABLES heap, snaps, last, req, frame, log

vars == <<heap, snaps, last, req, frame, log>>

-----------------------------------------------------------------------------
(* Bounds of the exploration.                                              *)

\* Longest auction the caller builds.
MaxEntries == 4

\* Highest level of a Bid the caller passes to add_call.
MaxInputLevel == 2

\* Most entries of one auction that the caller makes out of turn (under
\* Spec; under SpecAnySeat the caller passes any seat at any time).
MaxOutOfTurn == 0

\* Strains of the Bids the caller passes to add_call.
InputStrains == {"Clubs", "Spades"}

\* Most plays of a trick handed to get_trick_winner.
MaxPlays == 5

\* Suits and ranks of the cards in the tricks and hands of the play engine's
\* callers, and the seats that lead their tricks.
PlaySuits == {"Spades", "Hearts", "Clubs"}

PlayRanks == {"Two", "Ten", "Ace"}

TrickLeaders == {"North", "West"}

\* Most cards of a hand handed to get_legal_plays.
MaxHandCards == 3

\* Most tricks the declarer is reported to have won.
MaxTricksWon == 13

\* Highest seed, and highest start of the unseeded generator, of a
\* generate_deal request.
MaxSeed == 1

\* Highest attempt budget a generate_deal request names.
MaxAttempts == 3

-----------------------------------------------------------------------------
(* types.rs, constants.rs                                                  *)

SEATS == <<"North", "East", "South", "West">>

Seat == {SEATS[i] : i \in 1..4}

seat_index(seat) ==
    CASE seat = "North" -> 0
      [] seat = "East"  -> 1
      [] seat = "South" -> 2
      [] seat = "West"  -> 3

\* SEATS is indexed from 0 in the source and from 1 here.
next_seat(seat) == SEATS[((seat_index(seat) + 1) % 4) + 1]

partner_seat(seat) == SEATS[((seat_index(seat) + 2) % 4) + 1]

BidSuit == {"Clubs", "Diamonds", "Hearts", "Spades", "NoTrump"}

\* Call: a Bid carries level and strain, the other three carry nothing.
Bid(level, strain) == [type |-> "Bid", level |-> level, strain |-> strain]

Pass == [type |-> "Pass", level |-> 0, strain |-> "-"]

Double == [type |-> "Double", level |-> 0, strain |-> "-"]

Redouble == [type |-> "Redouble", level |-> 0, strain |-> "-"]

AuctionEntry(seat, call) == [seat |-> seat, call |-> call]

\* An Auction is a completion flag and the buffer of its entries; `entries`
\* is the address of that buffer in `heap`.
Deref(h, auction) ==
    [entries |-> h[auction.entries], is_complete |-> auction.is_complete]

-----------------------------------------------------------------------------
(* auction.rs                                                              *)

strain_rank(strain) ==
    CASE strain = "Clubs"    -> 1
      [] strain = "Diamonds" -> 2
      [] strain = "Hearts"   -> 3
      [] strain = "Spades"   -> 4
      [] strain = "NoTrump"  -> 5

cmp(a, b) == IF a < b THEN "Less" ELSE IF a > b THEN "Greater" ELSE "Equal"

\* Variant of compare_bids that compares the strains first.
compare_bids_strain_first(a_level, a_strain, b_level, b_strain) ==
    IF cmp(strain_rank(a_strain), strain_rank(b_strain)) # "Equal"
    THEN cmp(strain_rank(a_strain), strain_rank(b_strain))
    ELSE cmp(a_level, b_level)

compare_bids(a_level, a_strain, b_level, b_strain) ==
    IF cmp(a_level, b_level) # "Equal"
    THEN cmp(a_level, b_level)
    ELSE cmp(strain_rank(a_strain), strain_rank(b_strain))

\* Variant of same_side that forgets the partner.
same_side_self_only(a, b) == a = b

same_side(a, b) == a = b \/ partner_seat(a) = b

\* Index of the last entry of `entries` whose call satisfies the test, 0 for
\* None (iter().rev().find(..)).
RECURSIVE rfind_non_pass(_, _)
rfind_non_pass(entries, i) ==
    IF i = 0 THEN 0
    ELSE IF entries[i].call.type # "Pass" THEN i
    ELSE rfind_non_pass(entries, i - 1)

RECURSIVE rfind_bid(_, _)
rfind_bid(entries, i) ==
    IF i = 0 THEN 0
    ELSE IF entries[i].call.type = "Bid" THEN i
    ELSE rfind_bid(entries, i - 1)

\* Variant of last_non_pass that takes the most recent entry, a Pass included.
last_non_pass_any_entry(auction) == Len(auction.entries)

last_non_pass(auction) == rfind_non_pass(auction.entries, Len(auction.entries))

last_bid(auction) == rfind_bid(auction.entries, Len(auction.entries))

\* Variant of is_legal_call that accepts a Double of a Double.
is_legal_call_double_again(auction, call, seat) ==
    IF auction.is_complete THEN FALSE
    ELSE CASE call.type = "Pass" -> TRUE
           [] call.type = "Bid" ->
                LET i == last_bid(auction) IN
                IF i = 0 THEN TRUE
                ELSE LET prev == auction.entries[i].call IN
                     IF prev.type # "Bid" THEN FALSE
                     ELSE compare_bids(call.level, call.strain,
                                       prev.level, prev.strain) = "Greater"
           [] call.type = "Double" ->
                LET i == last_non_pass(auction) IN
                IF i = 0 THEN FALSE
                ELSE /\ auction.entries[i].call.type \in {"Bid", "Double"}
                     /\ ~same_side(auction.entries[i].seat, seat)
           [] call.type = "Redouble" ->
                LET i == last_non_pass(auction) IN
                IF i = 0 THEN FALSE
                ELSE /\ auction.entries[i].call.type = "Double"
                     /\ ~same_side(auction.entries[i].seat, seat)

\* Variant of is_legal_call that accepts a Bid equal to the most recent Bid.
is_legal_call_equal_bid(auction, call, seat) ==
    IF auction.is_complete THEN FALSE
    ELSE CASE call.type = "Pass" -> TRUE
           [] call.type = "Bid" ->
                LET i == last_bid(auction) IN
                IF i = 0 THEN TRUE
                ELSE LET prev == auction.entries[i].call IN
                     IF prev.type # "Bid" THEN FALSE
                     ELSE compare_bids(call.level, call.strain,
                                       prev.level, prev.strain) # "Less"
           [] call.type = "Double" ->
                LET i == last_non_pass(auction) IN
                IF i = 0 THEN FALSE
                ELSE /\ auction.entries[i].call.type = "Bid"
                     /\ ~same_side(auction.entries[i].seat, seat)
           [] call.type = "Redouble" ->
                LET i == last_non_pass(auction) IN
                IF i = 0 THEN FALSE
                ELSE /\ auction.entries[i].call.type = "Double"
                     /\ ~same_side(auction.entries[i].seat, seat)

is_legal_call(auction, call, seat) ==
    IF auction.is_complete THEN FALSE
    ELSE CASE call.type = "Pass" -> TRUE
           [] call.type = "Bid" ->
                LET i == last_bid(auction) IN
                IF i = 0 THEN TRUE
                ELSE LET prev == auction.entries[i].call IN
                     IF prev.type # "Bid" THEN FALSE
                     ELSE compare_bids(call.level, call.strain,
                                       prev.level, prev.strain) = "Greater"
           [] call.type = "Double" ->
                LET i == last_non_pass(auction) IN
                IF i = 0 THEN FALSE
                ELSE /\ auction.entries[i].call.type = "Bid"
                     /\ ~same_side(auction.entries[i].seat, seat)
           [] call.type = "Redouble" ->
                LET i == last_non_pass(auction) IN
                IF i = 0 THEN FALSE
                ELSE /\ auction.entries[i].call.type = "Double"
                     /\ ~same_side(auction.entries[i].seat, seat)

\* Variant of is_auction_complete that asks for two closing passes only.
is_auction_complete_two_passes(auction) ==
    LET entries == auction.entries
        len == Len(entries)
    IN  IF len < 4 THEN FALSE
        ELSE LET last_two_passes ==
                     /\ entries[len].call.type = "Pass"
                     /\ entries[len - 1].call.type = "Pass"
             IN  IF ~last_two_passes THEN FALSE
                 ELSE IF len = 4 /\ entries[len - 3].call.type = "Pass" THEN TRUE
                 ELSE \E i \in 1..(len - 3) : entries[i].call.type # "Pass"

is_auction_complete(auction) ==
    LET entries == auction.entries
        len == Len(entries)
    IN  IF len < 4 THEN FALSE
        ELSE LET last_three_passes ==
                     /\ entries[len].call.type = "Pass"
                     /\ entries[len - 1].call.type = "Pass"
                     /\ entries[len - 2].call.type = "Pass"
             IN  IF ~last_three_passes THEN FALSE
                 ELSE IF len = 4 /\ entries[len - 3].call.type = "Pass" THEN TRUE
                 ELSE \E i \in 1..(len - 3) : entries[i].call.type # "Pass"

\* format!("{:?}", call): the derived Debug text of a Call, token by token.
DebugLevel(level) ==
    CASE level = 0 -> "0" [] level = 1 -> "1" [] level = 2 -> "2"
      [] level = 3 -> "3" [] level = 4 -> "4" [] level = 5 -> "5"
      [] level = 6 -> "6" [] level = 7 -> "7" [] level = 8 -> "8"
      [] OTHER -> "9"

DebugCall(call) ==
    IF call.type = "Bid"
    THEN <<"Bid", "{", "level:", DebugLevel(call.level), ",",
           "strain:", call.strain, "}">>
    ELSE <<call.type>>

\* Variant of vec_clone that hands back the same buffer.
vec_clone_shared(h, addr) == [heap |-> h, addr |-> addr]

\* Vec::clone: a new buffer holding the same entries.
vec_clone(h, addr) == [heap |-> Append(h, h[addr]), addr |-> Len(h) + 1]

\* Vec::push on the buffer at addr.
vec_push(h, addr, entry) == [h EXCEPT ![addr] = Append(h[addr], entry)]

NoAuction == [entries |-> 0, is_complete |-> FALSE]

\* Variant of add_call that hands the flag of the auction it was given on to
\* the auction it returns.
add_call_keeps_flag(h, auction, entry) ==
    IF auction.is_complete
    THEN [ok |-> FALSE, err |-> "AuctionComplete", msg |-> <<>>,
          value |-> NoAuction, heap |-> h]
    ELSE IF ~is_legal_call(Deref(h, auction), entry.call, entry.seat)
    THEN [ok |-> FALSE, err |-> "IllegalCall", msg |-> DebugCall(entry.call),
          value |-> NoAuction, heap |-> h]
    ELSE LET cloned == vec_clone(h, auction.entries)
             h2 == vec_push(cloned.heap, cloned.addr, entry)
         IN  [ok |-> TRUE, err |-> "-", msg |-> <<>>,
              value |-> [entries |-> cloned.addr,
                         is_complete |-> auction.is_complete],
              heap |-> h2]

\* Variant of add_call without the test for a complete auction.
add_call_no_complete_test(h, auction, entry) ==
    IF ~is_legal_call(Deref(h, auction), entry.call, entry.seat)
    THEN [ok |-> FALSE, err |-> "IllegalCall", msg |-> DebugCall(entry.call),
          value |-> NoAuction, heap |-> h]
    ELSE LET cloned == vec_clone(h, auction.entries)
             h2 == vec_push(cloned.heap, cloned.addr, entry)
             result == [entries |-> cloned.addr, is_complete |-> FALSE]
         IN  [ok |-> TRUE, err |-> "-", msg |-> <<>>,
              value |-> [result EXCEPT
                           !.is_complete = is_auction_complete(Deref(h2, result))],
              heap |-> h2]

\* Variant of add_call without the legality test.
add_call_no_legality_test(h, auction, entry) ==
    IF auction.is_complete
    THEN [ok |-> FALSE, err |-> "AuctionComplete", msg |-> <<>>,
          value |-> NoAuction, heap |-> h]
    ELSE LET cloned == vec_clone(h, auction.entries)
             h2 == vec_push(cloned.heap, cloned.addr, entry)
             result == [entries |-> cloned.addr, is_complete |-> FALSE]
         IN  [ok |-> TRUE, err |-> "-", msg |-> <<>>,
              value |-> [result EXCEPT
                           !.is_complete = is_auction_complete(Deref(h2, result))],
              heap |-> h2]

\* add_call(&auction, entry) -> Result<Auction, EngineError>, with the heap
\* the call leaves behind.
add_call(h, auction, entry) ==
    IF auction.is_complete
    THEN [ok |-> FALSE, err |-> "AuctionComplete", msg |-> <<>>,
          value |-> NoAuction, heap |-> h]
    ELSE IF ~is_legal_call(Deref(h, auction), entry.call, entry.seat)
    THEN [ok |-> FALSE, err |-> "IllegalCall", msg |-> DebugCall(entry.call),
          value |-> NoAuction, heap |-> h]
    ELSE LET cloned == vec_clone(h, auction.entries)
             h2 == vec_push(cloned.heap, cloned.addr, entry)
             result == [entries |-> cloned.addr, is_complete |-> FALSE]
         IN  [ok |-> TRUE, err |-> "-", msg |-> <<>>,
              value |-> [result EXCEPT
                           !.is_complete = is_auction_complete(Deref(h2, result))],
              heap |-> h2]

\* Find the declarer: Result<Seat, EngineError>.
RECURSIVE find_declarer(_, _, _, _)
find_declarer(entries, i, final_strain, declaring_side) ==
    IF i > Len(entries) THEN declaring_side
    ELSE IF /\ entries[i].call.type = "Bid"
            /\ entries[i].call.strain = final_strain
            /\ same_side(entries[i].seat, declaring_side)
    THEN entries[i].seat
    ELSE find_declarer(entries, i + 1, final_strain, declaring_side)

\* Variant of get_declarer that names the last bidder.
get_declarer_last_bidder(auction) ==
    LET i == last_bid(auction) IN
    IF i = 0 THEN [ok |-> FALSE, err |-> "NoBidsInAuction", seat |-> "-"]
    ELSE [ok |-> TRUE, err |-> "-", seat |-> auction.entries[i].seat]

get_declarer(auction) ==
    LET i == last_bid(auction) IN
    IF i = 0 THEN [ok |-> FALSE, err |-> "NoBidsInAuction", seat |-> "-"]
    ELSE LET lastb == auction.entries[i] IN
         IF lastb.call.type # "Bid"
         THEN [ok |-> FALSE, err |-> "NoBidsInAuction", seat |-> "-"]
         ELSE [ok |-> TRUE, err |-> "-",
               seat |-> find_declarer(auction.entries, 1,
                                      lastb.call.strain, lastb.seat)]

Contract(level, strain, doubled, redoubled, declarer) ==
    [level |-> level, strain |-> strain, doubled |-> doubled,
     redoubled |-> redoubled, declarer |-> declarer]

\* Option<T>: None is the empty sequence, Some(x) is <<x>>.
None == <<>>

Some(x) == <<x>>

\* Variant of get_contract that reads the flags off the auction's last entry.
get_contract_last_entry(auction) ==
    LET i == last_bid(auction) IN
    IF i = 0 THEN [ok |-> TRUE, err |-> "-", contract |-> None]
    ELSE LET lastb == auction.entries[i]
             d == get_declarer(auction)
             e == auction.entries[Len(auction.entries)]
         IN  [ok |-> TRUE, err |-> "-",
              contract |-> Some(Contract(lastb.call.level, lastb.call.strain,
                                         e.call.type = "Double",
                                         e.call.type = "Redouble", d.seat))]

get_contract(auction) ==
    LET i == last_bid(auction) IN
    IF i = 0 THEN [ok |-> TRUE, err |-> "-", contract |-> None]
    ELSE LET lastb == auction.entries[i] IN
         IF lastb.call.type # "Bid"
         THEN [ok |-> TRUE, err |-> "-", contract |-> None]
         ELSE LET j == last_non_pass(auction)
                  doubled == j # 0 /\ auction.entries[j].call.type = "Double"
                  redoubled ==
                      j # 0 /\ auction.entries[j].call.type = "Redouble"
                  d == get_declarer(auction)
              IN  IF ~d.ok
                  THEN [ok |-> FALSE, err |-> d.err, contract |-> None]
                  ELSE [ok |-> TRUE, err |-> "-",
                        contract |-> Some(Contract(lastb.call.level,
                                                   lastb.call.strain, doubled,
                                                   redoubled, d.seat))]

\* Highest level get_legal_calls enumerates (for level in 1..=7u8).
MaxBidLevel == 7

strains == <<"Clubs", "Diamonds", "Hearts", "Spades", "NoTrump">>

\* The calls get_legal_calls tries, in the order it tries them.
CandidateCalls ==
    <<Pass>>
        \o [k \in 1..(MaxBidLevel * 5) |->
               Bid(((k - 1) \div 5) + 1, strains[((k - 1) % 5) + 1])]
        \o <<Double, Redouble>>

\* Variant of get_legal_calls that never offers Redouble.
get_legal_calls_no_redouble(auction, seat) ==
    IF auction.is_complete THEN <<>>
    ELSE SelectSeq(SubSeq(CandidateCalls, 1, Len(CandidateCalls) - 1),
                   LAMBDA c : is_legal_call(auction, c, seat))

get_legal_calls(auction, seat) ==
    IF auction.is_complete THEN <<>>
    ELSE SelectSeq(CandidateCalls, LAMBDA c : is_legal_call(auction, c, seat))

-----------------------------------------------------------------------------
(* The caller.  It starts from the empty auction, passes the auction it    *)
(* holds to one engine function at a time and reads the response before    *)
(* the next request.                                                       *)

\* The seat that opens the caller's auctions (generate_deal's default dealer).
Dealer == "North"

InputLevels == 1..MaxInputLevel

InputCalls ==
    {Pass, Double, Redouble}
        \cup {Bid(l, s) : l \in InputLevels, s \in InputStrains}

InputEntries == {AuctionEntry(seat, call) : seat \in Seat, call \in InputCalls}

\* The auction the caller holds now.
cur == snaps[Len(snaps)]

auction == Deref(heap, cur)

\* The seat whose turn entry i is, the dealer opening.
TurnAt(entries, i) == IF i = 1 THEN Dealer ELSE next_seat(entries[i - 1].seat)

\* Number of entries made by a seat other than the one whose turn it is.
OutOfTurn(entries) ==
    Cardinality({i \in 1..Len(entries) : entries[i].seat # TurnAt(entries, i)})

NoResult ==
    [op |-> "-", ok |-> TRUE, err |-> "-", msg |-> <<>>, seat |-> "-",
     calls |-> <<>>, contract |-> None, value |-> None]

\* No pure-function request is in flight.
NoRequest == [op |-> "-"]

\* generate_deal is not running.
NoFrame == [pc |-> "-"]

Idle == last.op = "-"

Init ==
    /\ heap = << <<>> >>
    /\ snaps = << [entries |-> 1, is_complete |-> FALSE] >>
    /\ last = NoResult
    /\ req = NoRequest
    /\ frame = NoFrame
    /\ log = <<>>

\* The caller passes the auction it holds and an entry to add_call.  It
\* stops building at MaxEntries entries and at max_out entries out of turn.
AddCallWithin(entry, max_out) ==
    LET r == add_call(heap, cur, entry) IN
    /\ Idle
    /\ r.ok => /\ Len(auction.entries) < MaxEntries
               /\ OutOfTurn(Append(auction.entries, entry)) <= max_out
    /\ heap' = r.heap
    /\ snaps' = IF r.ok THEN Append(snaps, r.value) ELSE snaps
    /\ last' = [NoResult EXCEPT !.op = "add_call", !.ok = r.ok,
                                !.err = r.err, !.msg = r.msg]
    /\ UNCHANGED <<req, frame, log>>

AddCall(entry) == AddCallWithin(entry, MaxOutOfTurn)

AddCallAnySeat(entry) == AddCallWithin(entry, MaxEntries)

GetLegalCalls(seat) ==
    /\ Idle
    /\ last' = [NoResult EXCEPT !.op = "get_legal_calls", !.seat = seat,
                                !.calls = get_legal_calls(auction, seat)]
    /\ UNCHANGED <<heap, snaps, req, frame, log>>

GetDeclarer ==
    LET r == get_declarer(auction) IN
    /\ Idle
    /\ last' = [NoResult EXCEPT !.op = "get_declarer", !.ok = r.ok,
                                !.err = r.err, !.seat = r.seat]
    /\ UNCHANGED <<heap, snaps, req, frame, log>>

GetContract ==
    LET r == get_contract(auction) IN
    /\ Idle
    /\ last' = [NoResult EXCEPT !.op = "get_contract", !.ok = r.ok,
                                !.err = r.err, !.contract = r.contract]
    /\ UNCHANGED <<heap, snaps, req, frame, log>>

\* The caller has read the response.
Respond ==
    /\ ~Idle
    /\ last' = NoResult
    /\ UNCHANGED <<heap, snaps, req, frame, log>>

Next ==
    \/ \E entry \in InputEntries : AddCall(entry)
    \/ \E seat \in Seat : GetLegalCalls(seat)
    \/ GetDeclarer
    \/ GetContract
    \/ Respond

Spec == Init /\ [][Next]_vars

\* The same caller, passing any seat with every entry.
NextAnySeat ==
    \/ \E entry \in InputEntries : AddCallAnySeat(entry)
    \/ \E seat \in Seat : GetLegalCalls(seat)
    \/ GetDeclarer
    \/ GetContract
    \/ Respond

SpecAnySeat == Init /\ [][NextAnySeat]_vars

-----------------------------------------------------------------------------
(* Vocabulary of the properties, stated without the engine's helpers.      *)

\* The two partnerships.
Side(seat) == IF seat \in {"North", "South"} THEN "NS" ELSE "EW"

IsPrefix(s, t) == Len(s) <= Len(t) /\ \A i \in 1..Len(s) : s[i] = t[i]

\* Positions of the Bids, and of the calls other than Pass.
BidIdx(entries) == {i \in 1..Len(entries) : entries[i].call.type = "Bid"}

NonPassIdx(entries) == {i \in 1..Len(entries) : entries[i].call.type # "Pass"}

Max(S) == CHOOSE x \in S : \A y \in S : y <= x

Min(S) == CHOOSE x \in S : \A y \in S : x <= y

\* Every call the engine's vocabulary holds with a level of 1 to 7.
AllBids == {Bid(l, s) : l \in 1..MaxBidLevel, s \in BidSuit}

AllCalls == {Pass, Double, Redouble} \cup AllBids

AllEntries == {AuctionEntry(seat, call) : seat \in Seat, call \in AllCalls}

\* The completion rule as the specification words it.
CompletionRule(entries) ==
    \/ Len(entries) = 4 /\ NonPassIdx(entries) = {}
    \/ /\ NonPassIdx(entries) # {}
       /\ Len(entries) >= 3
       /\ \A i \in (Len(entries) - 2)..Len(entries) :
              entries[i].call.type = "Pass"
       /\ Max(NonPassIdx(entries)) < Len(entries) - 2

\* The last operation was an add_call that returned Ok.
Appended == last.op = "add_call" /\ last.ok

-----------------------------------------------------------------------------
(* Auction engine: rotation, completion, append.                           *)

\* C1: the seat of each entry after the first is the next seat clockwise
\* after the seat of the entry before it.
C1_StrictSeatRotation ==
    \A i \in 2..Len(auction.entries) :
        auction.entries[i].seat = next_seat(auction.entries[i - 1].seat)

\* C2: the stored flag and is_auction_complete are true exactly when the
\* auction is four passes, or holds a non-pass call and ends in three passes
\* that all follow the last non-pass call; so never below four entries, and
\* not for two bids followed by two passes.
C2_CompletionRule ==
    /\ \A i \in 1..Len(snaps) :
           snaps[i].is_complete = CompletionRule(Deref(heap, snaps[i]).entries)
    /\ is_auction_complete(auction) = CompletionRule(auction.entries)
    /\ Len(auction.entries) < 4 => ~auction.is_complete
    /\ ( /\ Len(auction.entries) = 4
         /\ BidIdx(auction.entries) = {1, 2}
         /\ NonPassIdx(auction.entries) = {1, 2} ) => ~auction.is_complete

\* C2 witness: an append has just completed an auction that holds a Bid.
C2_Witness ==
    /\ Appended
    /\ auction.is_complete
    /\ BidIdx(auction.entries) # {}

\* C3: on a complete auction add_call fails with AuctionComplete for every
\* seat and every call, and no snapshot was ever derived from a complete one.
C3_CompletionTerminal ==
    /\ (Idle /\ auction.is_complete) =>
           \A entry \in AllEntries :
               LET r == add_call(heap, cur, entry) IN
               ~r.ok /\ r.err = "AuctionComplete" /\ r.heap = heap
    /\ \A i \in 1..(Len(snaps) - 1) : ~snaps[i].is_complete
    /\ last.op = "add_call" =>
           (last.err = "AuctionComplete") = (auction.is_complete /\ ~last.ok)

\* C3 witness: add_call has just refused a call on a complete auction.
C3_Witness ==
    /\ last.op = "add_call"
    /\ last.err = "AuctionComplete"
    /\ auction.is_complete

\* C4: on an auction that is not complete add_call succeeds exactly for the
\* legal calls; an illegal call gives IllegalCall with the call's description
\* (no two calls share one), a legal one a new auction holding the prior entries followed by the new
\* entry, with is_complete the completion rule of those entries.
C4_AppendIffLegal ==
    /\ (Idle /\ ~auction.is_complete) =>
           \A entry \in AllEntries :
               LET r == add_call(heap, cur, entry)
                   new_entries == Append(auction.entries, entry)
               IN  /\ r.ok = is_legal_call(auction, entry.call, entry.seat)
                   /\ ~r.ok => /\ r.err = "IllegalCall"
                               /\ r.msg = DebugCall(entry.call)
                               /\ r.heap = heap
                   /\ r.ok => /\ Deref(r.heap, r.value).entries = new_entries
                              /\ r.value.is_complete = CompletionRule(new_entries)
    /\ (last.op = "add_call" /\ last.err = "IllegalCall") =>
           /\ ~auction.is_complete
           /\ \E call \in AllCalls :
                  /\ DebugCall(call) = last.msg
                  /\ \E seat \in Seat : ~is_legal_call(auction, call, seat)
    /\ (Idle /\ auction.entries = <<>>) =>
           \A c \in AllCalls : \A d \in AllCalls :
               DebugCall(c) = DebugCall(d) => c = d

\* C4 witness: add_call has just refused an illegal call on an auction that
\* is not complete.
C4_Witness ==
    /\ last.op = "add_call"
    /\ last.err = "IllegalCall"
    /\ ~auction.is_complete
    /\ auction.entries # <<>>

\* C5: no step changes an auction value the caller already holds, and every
\* earlier snapshot is a prefix of every later one.
C5_PriorAuctionUnchanged ==
    [][ /\ \A i \in 1..Len(snaps) :
               /\ i <= Len(snaps')
               /\ snaps'[i] = snaps[i]
               /\ Deref(heap', snaps'[i]) = Deref(heap, snaps[i])
        /\ \A i \in 1..Len(snaps') : \A j \in i..Len(snaps') :
               IsPrefix(Deref(heap', snaps'[i]).entries,
                        Deref(heap', snaps'[j]).entries)
      ]_vars

\* C5 witness: an append to an auction that was itself returned by an append.
C5_Witness ==
    /\ Appended
    /\ Len(snaps) >= 3

-----------------------------------------------------------------------------
(* Auction engine: legality of Bid, Double and Redouble.                   *)

\* C6: a Bid is legal on an incomplete auction exactly when there is no
\* earlier Bid or it compares Greater than the most recent Bid; the Bids of
\* an auction are strictly increasing.
C6_BidLegality ==
    LET entries == auction.entries
        bids == BidIdx(entries)
    IN  /\ (Idle /\ ~auction.is_complete) =>
               \A seat \in Seat : \A b \in AllBids :
                   is_legal_call(auction, b, seat) =
                       ( \/ bids = {}
                         \/ LET prev == entries[Max(bids)].call IN
                            compare_bids(b.level, b.strain,
                                         prev.level, prev.strain) = "Greater" )
        /\ \A i \in bids : \A j \in bids :
               i < j => \/ entries[i].call.level < entries[j].call.level
                        \/ /\ entries[i].call.level = entries[j].call.level
                           /\ strain_rank(entries[i].call.strain)
                                  < strain_rank(entries[j].call.strain)

\* C6 witness: add_call has just refused a Bid over an earlier Bid with a
\* call other than a Bid in between.
C6_Witness ==
    /\ last.op = "add_call"
    /\ last.err = "IllegalCall"
    /\ last.msg[1] = "Bid"
    /\ ~auction.is_complete
    /\ BidIdx(auction.entries) # {}
    /\ Max(NonPassIdx(auction.entries)) > Max(BidIdx(auction.entries))

\* C7: a Double is legal on an incomplete auction exactly when the most
\* recent non-pass entry exists, is a Bid and was made by the other side.
C7_DoubleLegality ==
    LET entries == auction.entries
        np == NonPassIdx(entries)
    IN  ~auction.is_complete =>
            \A seat \in Seat :
                is_legal_call(auction, Double, seat) =
                    ( /\ np # {}
                      /\ entries[Max(np)].call.type = "Bid"
                      /\ Side(entries[Max(np)].seat) # Side(seat) )

\* C7 witness: a Double has just been appended over a Bid that was passed
\* round to the doubler.
C7_Witness ==
    /\ Appended
    /\ Len(auction.entries) >= 3
    /\ BidIdx(auction.entries) # {}
    /\ auction.entries[Len(auction.entries)].call = Double
    /\ auction.entries[Len(auction.entries) - 1].call = Pass

\* C8: a Redouble is legal on an incomplete auction exactly when the most
\* recent non-pass entry exists, is a Double and was made by the other side;
\* the seats that may redouble are the two of the side whose Bid was doubled.
C8_RedoubleLegality ==
    LET entries == auction.entries
        np == NonPassIdx(entries)
        bids == BidIdx(entries)
    IN  ~auction.is_complete =>
            \A seat \in Seat :
                /\ is_legal_call(auction, Redouble, seat) =
                       ( /\ np # {}
                         /\ entries[Max(np)].call.type = "Double"
                         /\ Side(entries[Max(np)].seat) # Side(seat) )
                /\ is_legal_call(auction, Redouble, seat) =>
                       /\ bids # {}
                       /\ Side(entries[Max(bids)].seat) = Side(seat)

\* C8 witness: a Redouble has just been appended by the partner of the seat
\* whose Bid was doubled.
C8_Witness ==
    /\ Appended
    /\ Len(auction.entries) >= 3
    /\ auction.entries[Len(auction.entries)].call = Redouble
    /\ auction.entries[Len(auction.entries) - 1].call = Double
    /\ auction.entries[Len(auction.entries) - 2].call.type = "Bid"
    /\ auction.entries[Len(auction.entries)].seat
           = partner_seat(auction.entries[Len(auction.entries) - 2].seat)

-----------------------------------------------------------------------------
(* Auction engine: enumeration of the legal calls, declarer.               *)

\* Place of a call in the order Pass, Bids by (level, strain), Double,
\* Redouble.
CallOrder(call) ==
    CASE call.type = "Pass"     -> 0
      [] call.type = "Bid"      -> 5 * (call.level - 1) + strain_rank(call.strain)
      [] call.type = "Double"   -> 36
      [] call.type = "Redouble" -> 37

\* C9: get_legal_calls returns exactly the legal calls among Pass, the 35
\* Bids, Double and Redouble, each once, in that order; nothing on a complete
\* auction, Pass on every other, and 36 calls on the empty auction.
C9_LegalCallEnumeration ==
    Idle =>
        \A seat \in Seat :
            LET calls == get_legal_calls(auction, seat) IN
            /\ {calls[i] : i \in 1..Len(calls)}
                   = {c \in AllCalls : is_legal_call(auction, c, seat)}
            /\ \A i \in 1..Len(calls) : \A j \in 1..Len(calls) :
                   i < j => CallOrder(calls[i]) < CallOrder(calls[j])
            /\ auction.is_complete => calls = <<>>
            /\ ~auction.is_complete => calls # <<>> /\ calls[1] = Pass
            /\ auction.entries = <<>> =>
                   /\ Len(calls) = 36
                   /\ \A i \in 1..Len(calls) : calls[i] \notin {Double, Redouble}

\* C9 witness: get_legal_calls has just answered, after a Bid, with a list
\* that offers Double.
C9_Witness ==
    /\ last.op = "get_legal_calls"
    /\ auction.entries # <<>>
    /\ \E i \in 1..Len(last.calls) : last.calls[i] = Double

\* C10: get_declarer fails with NoBidsInAuction when the auction holds no
\* Bid; otherwise it returns the seat of the first Bid that names the strain
\* of the last Bid and was made by the last bidder's side.
C10_DeclarerResolution ==
    LET entries == auction.entries
        bids == BidIdx(entries)
        r == get_declarer(auction)
    IN  /\ bids = {} => ~r.ok /\ r.err = "NoBidsInAuction"
        /\ bids # {} =>
               LET final == entries[Max(bids)]
                   named == {i \in bids :
                                /\ entries[i].call.strain = final.call.strain
                                /\ Side(entries[i].seat) = Side(final.seat)}
               IN  /\ r.ok
                   /\ r.seat = entries[Min(named)].seat
                   /\ Side(r.seat) = Side(final.seat)

\* C10 witness: get_declarer has just returned a seat that is not the last
\* bidder's.
C10_Witness ==
    /\ last.op = "get_declarer"
    /\ last.ok
    /\ BidIdx(auction.entries) # {}
    /\ last.seat # auction.entries[Max(BidIdx(auction.entries))].seat

-----------------------------------------------------------------------------
(* Auction engine: contract extraction.                                    *)

\* C11: get_contract succeeds with no contract when the auction holds no Bid
\* (as after four passes); otherwise it succeeds with the contract whose level
\* and strain are those of the last Bid, whose declarer is get_declarer's
\* result, whose doubled flag says that the most recent non-pass entry is a
\* Double and whose redoubled flag says that it is a Redouble.
C11_ContractExtraction ==
    last.op = "get_contract" =>
        LET entries == auction.entries IN
        /\ last.ok
        /\ BidIdx(entries) = {} => last.contract = None
        /\ BidIdx(entries) # {} =>
               LET b == entries[Max(BidIdx(entries))].call
                   np == entries[Max(NonPassIdx(entries))].call
                   d == get_declarer(auction)
               IN  /\ d.ok
                   /\ last.contract =
                          Some([level |-> b.level, strain |-> b.strain,
                                doubled |-> (np.type = "Double"),
                                redoubled |-> (np.type = "Redouble"),
                                declarer |-> d.seat])

\* get_contract has returned a doubled contract for an auction that ends in
\* a Pass.
C11_Witness ==
    /\ last.op = "get_contract"
    /\ last.contract # None
    /\ last.contract[1].doubled
    /\ auction.entries[Len(auction.entries)].call.type = "Pass"

-----------------------------------------------------------------------------
(* Bid ordering.  A caller hands compare_bids the bids of a triple, pair   *)
(* by pair.                                                                *)

BidTriples == [a : AllBids, b : AllBids, c : AllBids]

InitBids ==
    /\ heap = << <<>> >>
    /\ snaps = << [entries |-> 1, is_complete |-> FALSE] >>
    /\ last = NoResult
    /\ frame = NoFrame
    /\ log = <<>>
    /\ \E t \in BidTriples :
           req = [op |-> "compare_bids", a |-> t.a, b |-> t.b, c |-> t.c]

CompareBids ==
    LET of(x, y) == compare_bids(x.level, x.strain, y.level, y.strain) IN
    /\ Idle
    /\ req.op = "compare_bids"
    /\ last' = [NoResult EXCEPT
                   !.op = "compare_bids",
                   !.value = [ab |-> of(req.a, req.b), ba |-> of(req.b, req.a),
                              bc |-> of(req.b, req.c), ac |-> of(req.a, req.c)]]
    /\ UNCHANGED <<heap, snaps, req, frame, log>>

NextBids == CompareBids

SpecBids == InitBids /\ [][NextBids]_vars

\* The ascending chain 1C, 1D, 1H, 1S, 1NT, 2C, ..., 7NT as the specification
\* writes it, and the place of a bid in it.
AscendingStrains == <<"Clubs", "Diamonds", "Hearts", "Spades", "NoTrump">>

AscendingChain ==
    [k \in 1..35 |->
        [type |-> "Bid", level |-> ((k - 1) \div 5) + 1,
         strain |-> AscendingStrains[((k - 1) % 5) + 1]]]

ChainPlace(bid) == CHOOSE k \in 1..35 : AscendingChain[k] = bid

\* C12: compare_bids is a strict total order on the 35 bids: the level
\* decides, then the strain in the order C < D < H < S < NT; Equal is returned
\* only for a bid and itself; swapping the arguments swaps Less and Greater;
\* Less is transitive; and the order is the one of the chain 1C < ... < 7NT.
C12_BidOrdering ==
    last.op = "compare_bids" =>
        LET a == req.a
            b == req.b
            v == last.value
        IN  /\ Cardinality(AllBids) = 35
            /\ {AscendingChain[k] : k \in 1..35} = AllBids
            /\ v.ab \in {"Less", "Equal", "Greater"}
            /\ (v.ab = "Equal") <=> (a = b)
            /\ (v.ab = "Less") <=> (v.ba = "Greater")
            /\ (v.ab = "Less" /\ v.bc = "Less") => v.ac = "Less"
            /\ a.level < b.level => v.ab = "Less"
            /\ (v.ab = "Less") <=> (ChainPlace(a) < ChainPlace(b))

\* compare_bids has ordered two bids by strain at one level and the second
\* of them below a bid of the next level with a lower strain.
C12_Witness ==
    /\ last.op = "compare_bids"
    /\ req.a = Bid(1, "Hearts") /\ req.b = Bid(1, "Spades")
    /\ req.c = Bid(2, "Clubs")
    /\ last.value.ab = "Less" /\ last.value.bc = "Less"

-----------------------------------------------------------------------------
(* constants.rs, types.rs: cards.                                          *)

SUITS == <<"Clubs", "Diamonds", "Hearts", "Spades">>

Suit == {SUITS[i] : i \in 1..4}

RANKS ==
    <<"Two", "Three", "Four", "Five", "Six", "Seven", "Eight", "Nine", "Ten",
      "Jack", "Queen", "King", "Ace">>

rank_index(rank) ==
    CASE rank = "Two"   -> 0
      [] rank = "Three" -> 1
      [] rank = "Four"  -> 2
      [] rank = "Five"  -> 3
      [] rank = "Six"   -> 4
      [] rank = "Seven" -> 5
      [] rank = "Eight" -> 6
      [] rank = "Nine"  -> 7
      [] rank = "Ten"   -> 8
      [] rank = "Jack"  -> 9
      [] rank = "Queen" -> 10
      [] rank = "King"  -> 11
      [] rank = "Ace"   -> 12

Card(suit, rank) == [suit |-> suit, rank |-> rank]

PlayedCard(card, seat) == [card |-> card, seat |-> seat]

\* get_trick_winner never reads the stored winner.
Trick(plays, trump_suit) ==
    [plays |-> plays, trump_suit |-> trump_suit, winner |-> None]

-----------------------------------------------------------------------------
(* play.rs                                                                 *)

\* Variant of max_by_key that keeps the play of the lowest rank.
RECURSIVE min_by_key(_, _, _)
min_by_key(plays, i, best) ==
    IF i > Len(plays) THEN best
    ELSE min_by_key(plays, i + 1,
                    IF rank_index(plays[i].card.rank)
                           < rank_index(best.card.rank)
                    THEN plays[i] ELSE best)

\* Iterator::max_by_key over plays[i..] with `best` the maximum so far: of
\* several plays with the greatest key the last one is returned.
RECURSIVE max_by_key(_, _, _)
max_by_key(plays, i, best) ==
    IF i > Len(plays) THEN best
    ELSE max_by_key(plays, i + 1,
                    IF rank_index(plays[i].card.rank)
                           >= rank_index(best.card.rank)
                    THEN plays[i] ELSE best)

\* plays.iter().max_by_key(..).map(|p| p.seat).ok_or(IncompleteTrick)
highest_seat(plays) ==
    IF plays = <<>>
    THEN [ok |-> FALSE, err |-> "IncompleteTrick", seat |-> "-"]
    ELSE [ok |-> TRUE, err |-> "-",
          seat |-> max_by_key(plays, 2, plays[1]).seat]

\* Variant of get_trick_winner that takes any trick of four plays or more.
get_trick_winner_at_least_four(trick) ==
    IF Len(trick.plays) < 4
    THEN [ok |-> FALSE, err |-> "IncompleteTrick", seat |-> "-"]
    ELSE LET lead_suit == trick.plays[1].card.suit
             trump_plays ==
                 IF trick.trump_suit = None THEN <<>>
                 ELSE SelectSeq(trick.plays,
                                LAMBDA p : p.card.suit = trick.trump_suit[1])
             follow_plays ==
                 SelectSeq(trick.plays, LAMBDA p : p.card.suit = lead_suit)
         IN  IF trick.trump_suit # None /\ trump_plays # <<>>
             THEN highest_seat(trump_plays)
             ELSE highest_seat(follow_plays)

get_trick_winner(trick) ==
    IF Len(trick.plays) # 4
    THEN [ok |-> FALSE, err |-> "IncompleteTrick", seat |-> "-"]
    ELSE LET lead_suit == trick.plays[1].card.suit
             trump_plays ==
                 IF trick.trump_suit = None THEN <<>>
                 ELSE SelectSeq(trick.plays,
                                LAMBDA p : p.card.suit = trick.trump_suit[1])
             follow_plays ==
                 SelectSeq(trick.plays, LAMBDA p : p.card.suit = lead_suit)
         IN  IF trick.trump_suit # None /\ trump_plays # <<>>
             THEN highest_seat(trump_plays)
             ELSE highest_seat(follow_plays)

\* Variant of get_legal_plays that returns the cards of the lead suit even
\* when the hand holds none.
get_legal_plays_follow_only(hand, lead_suit) ==
    IF lead_suit = None THEN hand.cards
    ELSE SelectSeq(hand.cards, LAMBDA c : c.suit = lead_suit[1])

get_legal_plays(hand, lead_suit) ==
    IF lead_suit = None THEN hand.cards
    ELSE LET follow == SelectSeq(hand.cards, LAMBDA c : c.suit = lead_suit[1])
         IN  IF follow = <<>> THEN hand.cards ELSE follow

-----------------------------------------------------------------------------
(* Play engine: trick winner.  A caller hands get_trick_winner a trick     *)
(* whose plays were made clockwise from the leader.                        *)

PlayCards == {Card(suit, rank) : suit \in PlaySuits, rank \in PlayRanks}

TrumpSuits == {None} \cup {Some(suit) : suit \in PlaySuits}

\* The seat of play i of a trick led by `leader`.
SeatOfPlay(leader, i) == SEATS[((seat_index(leader) + i - 1) % 4) + 1]

TrickOf(cards, leader, trump_suit) ==
    Trick([i \in 1..Len(cards) |->
               PlayedCard(cards[i], SeatOfPlay(leader, i))], trump_suit)

CardSeqs(n) == UNION {[1..k -> PlayCards] : k \in 0..n}

InitPlay ==
    /\ heap = << <<>> >>
    /\ snaps = << [entries |-> 1, is_complete |-> FALSE] >>
    /\ last = NoResult
    /\ frame = NoFrame
    /\ log = <<>>
    /\ \E cards \in CardSeqs(MaxPlays), leader \in TrickLeaders,
          trump_suit \in TrumpSuits :
           req = [op |-> "get_trick_winner",
                  trick |-> TrickOf(cards, leader, trump_suit)]

GetTrickWinner ==
    LET r == get_trick_winner(req.trick) IN
    /\ Idle
    /\ req.op = "get_trick_winner"
    /\ last' = [NoResult EXCEPT !.op = "get_trick_winner", !.ok = r.ok,
                                !.err = r.err, !.seat = r.seat]
    /\ UNCHANGED <<heap, snaps, req, frame, log>>

NextPlay == GetTrickWinner

SpecPlay == InitPlay /\ [][NextPlay]_vars

\* Ranks from the lowest to the highest, and the place of a rank among them.
RankOrder ==
    <<"Two", "Three", "Four", "Five", "Six", "Seven", "Eight", "Nine", "Ten",
      "Jack", "Queen", "King", "Ace">>

RankPlace(rank) == CHOOSE k \in 1..13 : RankOrder[k] = rank

\* Positions of the plays of a suit in a trick.
PlaysOf(trick, suit) ==
    {i \in 1..Len(trick.plays) : trick.plays[i].card.suit = suit}

\* Positions of the plays that decide a trick: the trumps when a trump suit
\* is designated and was played, the plays of the led suit otherwise.
Deciding(trick) ==
    IF trick.trump_suit # <<>> /\ PlaysOf(trick, trick.trump_suit[1]) # {}
    THEN PlaysOf(trick, trick.trump_suit[1])
    ELSE PlaysOf(trick, trick.plays[1].card.suit)

\* C13: for a trick of four plays get_trick_winner returns the seat of the
\* highest-ranked trump play when a trump suit is designated and was played,
\* otherwise the seat of the highest-ranked play of the led suit; the seat
\* returned never made a play that is neither trump nor of the led suit.
C13_TrickWinner ==
    (last.op = "get_trick_winner" /\ Len(req.trick.plays) = 4) =>
        LET plays == req.trick.plays IN
        /\ last.ok
        /\ \E i \in Deciding(req.trick) :
               /\ plays[i].seat = last.seat
               /\ \A j \in Deciding(req.trick) :
                      RankPlace(plays[j].card.rank)
                          <= RankPlace(plays[i].card.rank)
        /\ \A i \in 1..4 :
               ( /\ plays[i].card.suit # plays[1].card.suit
                 /\ <<plays[i].card.suit>> # req.trick.trump_suit )
                   => plays[i].seat # last.seat

\* get_trick_winner has given a trick to the Two of trumps played last on
\* the Ace of the led suit.
C13_Witness ==
    /\ last.op = "get_trick_winner"
    /\ Len(req.trick.plays) = 4
    /\ req.trick.trump_suit = <<"Hearts">>
    /\ req.trick.plays[1].card = [suit |-> "Spades", rank |-> "Ace"]
    /\ req.trick.plays[4].card = [suit |-> "Hearts", rank |-> "Two"]
    /\ last.seat = req.trick.plays[4].seat

\* C14: get_trick_winner fails with IncompleteTrick when the trick does not
\* hold exactly four plays, and returns the seat of one of the plays when it
\* holds four.
C14_TrickSize ==
    last.op = "get_trick_winner" =>
        LET plays == req.trick.plays IN
        IF Len(plays) = 4
        THEN last.ok /\ \E i \in 1..4 : plays[i].seat = last.seat
        ELSE ~last.ok /\ last.err = "IncompleteTrick"

\* get_trick_winner has refused a trick of five plays.
C14_Witness ==
    /\ last.op = "get_trick_winner"
    /\ Len(req.trick.plays) = 5
    /\ ~last.ok

-----------------------------------------------------------------------------
(* Play engine: legal plays.  A caller hands get_legal_plays a hand and    *)
(* the suit that was led, if any.                                          *)

Hand(cards) == [cards |-> cards]

LeadSuits == {None} \cup {Some(suit) : suit \in Suit}

InitHand ==
    /\ heap = << <<>> >>
    /\ snaps = << [entries |-> 1, is_complete |-> FALSE] >>
    /\ last = NoResult
    /\ frame = NoFrame
    /\ log = <<>>
    /\ \E cards \in CardSeqs(MaxHandCards), lead_suit \in LeadSuits :
           req = [op |-> "get_legal_plays", hand |-> Hand(cards),
                  lead_suit |-> lead_suit]

GetLegalPlays ==
    /\ Idle
    /\ req.op = "get_legal_plays"
    /\ last' = [NoResult EXCEPT
                   !.op = "get_legal_plays",
                   !.value = get_legal_plays(req.hand, req.lead_suit)]
    /\ UNCHANGED <<heap, snaps, req, frame, log>>

NextHand == GetLegalPlays

SpecHand == InitHand /\ [][NextHand]_vars

\* t is s with some of its elements left out.
RECURSIVE IsSubSeq(_, _)
IsSubSeq(t, s) ==
    IF t = <<>> THEN TRUE
    ELSE IF s = <<>> THEN FALSE
    ELSE IF Head(t) = Head(s) THEN IsSubSeq(Tail(t), Tail(s))
    ELSE IsSubSeq(t, Tail(s))

\* The cards of a suit in a sequence of cards, in their order.
RECURSIVE CardsOfSuit(_, _)
CardsOfSuit(cards, suit) ==
    IF cards = <<>> THEN <<>>
    ELSE IF Head(cards).suit = suit
         THEN <<Head(cards)>> \o CardsOfSuit(Tail(cards), suit)
         ELSE CardsOfSuit(Tail(cards), suit)

\* C15: get_legal_plays returns the whole hand when no suit was led; when a
\* suit was led, exactly the hand's cards of that suit if it holds any and the
\* whole hand if it holds none; the result is always made of cards of the
\* hand in hand order and is empty only for an empty hand.
C15_LegalPlays ==
    last.op = "get_legal_plays" =>
        LET cards == req.hand.cards
            held == IF req.lead_suit = <<>> THEN <<>>
                    ELSE CardsOfSuit(cards, req.lead_suit[1])
        IN  /\ req.lead_suit = <<>> => last.value = cards
            /\ (req.lead_suit # <<>> /\ held # <<>>) => last.value = held
            /\ (req.lead_suit # <<>> /\ held = <<>>) => last.value = cards
            /\ IsSubSeq(last.value, cards)
            /\ cards # <<>> => last.value # <<>>

\* get_legal_plays has returned the whole of a three-card hand that is void
\* in the suit led.
C15_Witness ==
    /\ last.op = "get_legal_plays"
    /\ req.lead_suit = <<"Spades">>
    /\ Len(req.hand.cards) = 3
    /\ \A i \in 1..3 : req.hand.cards[i].suit # "Spades"
    /\ last.value = req.hand.cards

-----------------------------------------------------------------------------
(* scoring.rs                                                              *)

Vulnerability == {"None", "NorthSouth", "EastWest", "Both"}

\* Variant of is_vulnerable that knows one member of each partnership.
is_vulnerable_one_member(declarer, vulnerability) ==
    CASE vulnerability = "None" -> FALSE
      [] vulnerability = "Both" -> TRUE
      [] vulnerability = "NorthSouth" -> declarer = "North"
      [] vulnerability = "EastWest" -> declarer = "East"

is_vulnerable(declarer, vulnerability) ==
    CASE vulnerability = "None" -> FALSE
      [] vulnerability = "Both" -> TRUE
      [] vulnerability = "NorthSouth" -> declarer = "North" \/ declarer = "South"
      [] vulnerability = "EastWest" -> declarer = "East" \/ declarer = "West"

\* Variant of calculate_trick_points that pays 40 for every no-trump trick.
calculate_trick_points_flat_nt(contract) ==
    LET base == CASE contract.strain \in {"Clubs", "Diamonds"} ->
                         20 * contract.level
                  [] contract.strain \in {"Hearts", "Spades"} ->
                         30 * contract.level
                  [] contract.strain = "NoTrump" -> 40 * contract.level
    IN  IF contract.redoubled THEN base * 4
        ELSE IF contract.doubled THEN base * 2
        ELSE base

calculate_trick_points(contract) ==
    LET base == CASE contract.strain \in {"Clubs", "Diamonds"} ->
                         20 * contract.level
                  [] contract.strain \in {"Hearts", "Spades"} ->
                         30 * contract.level
                  [] contract.strain = "NoTrump" ->
                         40 + 30 * (contract.level - 1)
    IN  IF contract.redoubled THEN base * 4
        ELSE IF contract.doubled THEN base * 2
        ELSE base

is_game(contract) == calculate_trick_points(contract) >= 100

trick_value(strain) ==
    CASE strain \in {"Clubs", "Diamonds"} -> 20
      [] strain \in {"Hearts", "Spades"} -> 30
      [] strain = "NoTrump" -> 30

calculate_making_score(contract, overtricks, vulnerable) ==
    LET trick_points == calculate_trick_points(contract)
        game == IF trick_points >= 100
                THEN (IF vulnerable THEN 500 ELSE 300)
                ELSE 50
        slam == IF contract.level = 6 THEN (IF vulnerable THEN 750 ELSE 500)
                ELSE IF contract.level = 7
                     THEN (IF vulnerable THEN 1500 ELSE 1000)
                ELSE 0
        insult == IF contract.redoubled THEN 100
                  ELSE IF contract.doubled THEN 50
                  ELSE 0
        bonus == game + slam + insult
        overtrick_points ==
            IF contract.redoubled
            THEN overtricks * (IF vulnerable THEN 400 ELSE 200)
            ELSE IF contract.doubled
                 THEN overtricks * (IF vulnerable THEN 200 ELSE 100)
            ELSE overtricks * trick_value(contract.strain)
    IN  trick_points + bonus + overtrick_points

\* Variant of doubled_penalty_loop that prices the third undertrick as the
\* fourth.
RECURSIVE doubled_penalty_loop_two(_, _, _, _)
doubled_penalty_loop_two(i, undertricks, vulnerable, total) ==
    IF i > undertricks THEN total
    ELSE doubled_penalty_loop_two(
             i + 1, undertricks, vulnerable,
             total + (IF vulnerable
                      THEN (IF i = 1 THEN 200 ELSE 300)
                      ELSE (IF i = 1 THEN 100
                            ELSE IF i <= 2 THEN 200 ELSE 300)))

\* The loop of calculate_doubled_penalty from undertrick i on.
RECURSIVE doubled_penalty_loop(_, _, _, _)
doubled_penalty_loop(i, undertricks, vulnerable, total) ==
    IF i > undertricks THEN total
    ELSE doubled_penalty_loop(
             i + 1, undertricks, vulnerable,
             total + (IF vulnerable
                      THEN (IF i = 1 THEN 200 ELSE 300)
                      ELSE (IF i = 1 THEN 100
                            ELSE IF i <= 3 THEN 200 ELSE 300)))

calculate_doubled_penalty(undertricks, vulnerable) ==
    doubled_penalty_loop(1, undertricks, vulnerable, 0)

calculate_penalty(contract, undertricks, vulnerable) ==
    IF contract.redoubled
    THEN calculate_doubled_penalty(undertricks, vulnerable) * 2
    ELSE IF contract.doubled
         THEN calculate_doubled_penalty(undertricks, vulnerable)
    ELSE undertricks * (IF vulnerable THEN 100 ELSE 50)

\* Variant of calculate_score that asks for a trick more than the contract.
calculate_score_needs_overtrick(contract, tricks_won, vulnerability) ==
    LET required == contract.level + 6
        tricks == tricks_won
        vulnerable == is_vulnerable(contract.declarer, vulnerability)
    IN  IF tricks > required
        THEN calculate_making_score(contract, tricks - required, vulnerable)
        ELSE -calculate_penalty(contract, required - tricks, vulnerable)

calculate_score(contract, tricks_won, vulnerability) ==
    LET required == contract.level + 6
        tricks == tricks_won
        vulnerable == is_vulnerable(contract.declarer, vulnerability)
    IN  IF tricks >= required
        THEN calculate_making_score(contract, tricks - required, vulnerable)
        ELSE -calculate_penalty(contract, required - tricks, vulnerable)

-----------------------------------------------------------------------------
(* Scoring.  A caller hands calculate_score a contract of level 1 to 7,    *)
(* the tricks the declarer won and the vulnerability of the deal.          *)

Contracts ==
    {Contract(level, strain, doubled, redoubled, declarer) :
        level \in 1..MaxBidLevel, strain \in BidSuit, doubled \in BOOLEAN,
        redoubled \in BOOLEAN, declarer \in Seat}

InitScore ==
    /\ heap = << <<>> >>
    /\ snaps = << [entries |-> 1, is_complete |-> FALSE] >>
    /\ last = NoResult
    /\ frame = NoFrame
    /\ log = <<>>
    /\ \E contract \in Contracts, tricks_won \in 0..MaxTricksWon,
          vulnerability \in Vulnerability :
           req = [op |-> "calculate_score", contract |-> contract,
                  tricks_won |-> tricks_won, vulnerability |-> vulnerability]

CalculateScore ==
    /\ Idle
    /\ req.op = "calculate_score"
    /\ last' = [NoResult EXCEPT
                   !.op = "calculate_score",
                   !.value = calculate_score(req.contract, req.tricks_won,
                                             req.vulnerability)]
    /\ UNCHANGED <<heap, snaps, req, frame, log>>

NextScore == CalculateScore

SpecScore == InitScore /\ [][NextScore]_vars

\* The score table as the specification words it.  A contract that carries
\* both flags counts as redoubled.
Minor(strain) == strain \in {"Clubs", "Diamonds"}

BaseTrickPoints(level, strain) ==
    IF Minor(strain) THEN 20 * level
    ELSE IF strain = "NoTrump" THEN 40 + 30 * (level - 1)
    ELSE 30 * level

TrickPoints(c) ==
    BaseTrickPoints(c.level, c.strain)
        * (IF c.redoubled THEN 4 ELSE IF c.doubled THEN 2 ELSE 1)

MakingScore(c, overtricks, vul) ==
    TrickPoints(c)
        + (IF TrickPoints(c) >= 100 THEN (IF vul THEN 500 ELSE 300) ELSE 50)
        + (IF c.level = 6 THEN (IF vul THEN 750 ELSE 500) ELSE 0)
        + (IF c.level = 7 THEN (IF vul THEN 1500 ELSE 1000) ELSE 0)
        + (IF c.redoubled THEN 100 ELSE IF c.doubled THEN 50 ELSE 0)
        + overtricks
            * (IF c.redoubled THEN (IF vul THEN 400 ELSE 200)
               ELSE IF c.doubled THEN (IF vul THEN 200 ELSE 100)
               ELSE IF Minor(c.strain) THEN 20
               ELSE 30)

DoubledPenalty(u, vul) ==
    IF vul THEN 200 + 300 * (u - 1)
    ELSE 100 + 200 * Min({u - 1, 2}) + 300 * Max({u - 3, 0})

Penalty(c, u, vul) ==
    IF c.redoubled THEN 2 * DoubledPenalty(u, vul)
    ELSE IF c.doubled THEN DoubledPenalty(u, vul)
    ELSE (IF vul THEN 100 ELSE 50) * u

\* The declarer's side is vulnerable.
DeclarerVulnerable(declarer, vulnerability) ==
    \/ vulnerability = "Both"
    \/ vulnerability = "NorthSouth" /\ Side(declarer) = "NS"
    \/ vulnerability = "EastWest" /\ Side(declarer) = "EW"

Scored == last.op = "calculate_score"

Made == req.tricks_won >= req.contract.level + 6

\* The request is for an undoubled or doubled contract of the given level
\* and strain, with the given number of tricks won.
ScoreCase(level, strain, doubled, tricks_won) ==
    /\ req.contract.level = level
    /\ req.contract.strain = strain
    /\ req.contract.doubled = doubled
    /\ ~req.contract.redoubled
    /\ req.tricks_won = tricks_won

\* C16: a made contract scores its trick points, plus the game or partscore
\* bonus, plus the slam bonus at level 6 or 7, plus 50 if doubled or 100 if
\* redoubled, plus the overtricks at their price; 1C making 7 scores 70, 3NT
\* making 9 scores 400, 4H making 10 vulnerable 620, 6NT making 12 scores 990
\* and 2H doubled making 8 scores 470.
C16_MakingScore ==
    (Scored /\ Made) =>
        LET c == req.contract
            vul == DeclarerVulnerable(c.declarer, req.vulnerability)
        IN  /\ last.value = MakingScore(c, req.tricks_won - (c.level + 6), vul)
            /\ ScoreCase(1, "Clubs", FALSE, 7) => last.value = 70
            /\ (ScoreCase(3, "NoTrump", FALSE, 9) /\ ~vul) => last.value = 400
            /\ (ScoreCase(4, "Hearts", FALSE, 10) /\ vul) => last.value = 620
            /\ (ScoreCase(6, "NoTrump", FALSE, 12) /\ ~vul) => last.value = 990
            /\ (ScoreCase(2, "Hearts", TRUE, 8) /\ ~vul) => last.value = 470

\* calculate_score has returned 470 for 2H doubled making 8.
C16_Witness ==
    /\ Scored
    /\ ScoreCase(2, "Hearts", TRUE, 8)
    /\ last.value = 470

\* C17: a contract that went down scores minus the penalty for its
\* undertricks: 50 or 100 each undoubled; doubled 100, 200, 200, then 300 each
\* not vulnerable and 200, then 300 each vulnerable; redoubled twice the
\* doubled total; 3NT doubled down 3 not vulnerable scores -500.
C17_UndertrickPenalty ==
    (Scored /\ ~Made) =>
        LET c == req.contract
            vul == DeclarerVulnerable(c.declarer, req.vulnerability)
            u == c.level + 6 - req.tricks_won
        IN  /\ last.value = -Penalty(c, u, vul)
            /\ (ScoreCase(3, "NoTrump", TRUE, 6) /\ ~vul) => last.value = -500

\* calculate_score has returned -500 for 3NT doubled down 3.
C17_Witness ==
    /\ Scored
    /\ ScoreCase(3, "NoTrump", TRUE, 6)
    /\ last.value = -500

\* C18: calculate_score applies the vulnerability of the declarer's side:
\* not vulnerable under None, vulnerable under Both, and under NorthSouth or
\* EastWest vulnerable exactly when the declarer belongs to that partnership;
\* the declarer's partner as declarer gets the same score.
C18_DeclarerVulnerability ==
    Scored =>
        LET c == req.contract
            over == req.tricks_won - (c.level + 6)
            ScoreWhen(vul) ==
                IF Made THEN MakingScore(c, over, vul)
                ELSE -Penalty(c, -over, vul)
            partner == [c EXCEPT !.declarer = partner_seat(c.declarer)]
        IN  /\ req.vulnerability = "None" => last.value = ScoreWhen(FALSE)
            /\ req.vulnerability = "Both" => last.value = ScoreWhen(TRUE)
            /\ req.vulnerability = "NorthSouth" =>
                   last.value = ScoreWhen(c.declarer \in {"North", "South"})
            /\ req.vulnerability = "EastWest" =>
                   last.value = ScoreWhen(c.declarer \in {"East", "West"})
            /\ last.value =
                   calculate_score(partner, req.tricks_won, req.vulnerability)

\* calculate_score has scored a game made by South with North-South
\* vulnerable as a vulnerable game.
C18_Witness ==
    /\ Scored
    /\ ScoreCase(4, "Hearts", FALSE, 10)
    /\ req.contract.declarer = "South"
    /\ req.vulnerability = "NorthSouth"
    /\ last.value = 620

-----------------------------------------------------------------------------
(* constants.rs, hand_evaluator.rs                                         *)

SUIT_ORDER == <<"Spades", "Hearts", "Diamonds", "Clubs">>

hcp_value(rank) ==
    CASE rank = "Jack"  -> 1
      [] rank = "Queen" -> 2
      [] rank = "King"  -> 3
      [] rank = "Ace"   -> 4
      [] OTHER          -> 0

\* The deck in the order create_deck pushes it: suit by suit over SUITS,
\* rank by rank over RANKS.
create_deck ==
    [k \in 1..52 |-> Card(SUITS[((k - 1) \div 13) + 1], RANKS[((k - 1) % 13) + 1])]

RECURSIVE sum_hcp(_, _)
sum_hcp(cards, i) ==
    IF i > Len(cards) THEN 0
    ELSE hcp_value(cards[i].rank) + sum_hcp(cards, i + 1)

calculate_hcp(hand) == sum_hcp(hand.cards, 1)

suit_order_index(suit) ==
    CASE suit = "Spades"   -> 0
      [] suit = "Hearts"   -> 1
      [] suit = "Diamonds" -> 2
      [] suit = "Clubs"    -> 3

\* counts[idx] += 1 over the cards; the array is indexed from 0 in the
\* source and from 1 here.
get_suit_length(hand) ==
    [k \in 1..4 |->
        Cardinality({i \in 1..Len(hand.cards) :
                        suit_order_index(hand.cards[i].suit) = k - 1})]

\* std::mem::swap of a pair when the test holds.
swap_if(test, pair) == IF test THEN <<pair[2], pair[1]>> ELSE pair

\* Variant of sorting_network without its last conditional swap.
sorting_network_four_swaps(shape) ==
    LET ab == swap_if(shape[1] < shape[2], <<shape[1], shape[2]>>)
        cd == swap_if(shape[3] < shape[4], <<shape[3], shape[4]>>)
        ac == swap_if(ab[1] < cd[1], <<ab[1], cd[1]>>)
        bd == swap_if(ab[2] < cd[2], <<ab[2], cd[2]>>)
    IN  <<ac[1], bd[1], ac[2], bd[2]>>

\* The five conditional swaps of is_balanced: a, b, c, d after the last one.
sorting_network(shape) ==
    LET ab == swap_if(shape[1] < shape[2], <<shape[1], shape[2]>>)
        cd == swap_if(shape[3] < shape[4], <<shape[3], shape[4]>>)
        ac == swap_if(ab[1] < cd[1], <<ab[1], cd[1]>>)
        bd == swap_if(ab[2] < cd[2], <<ab[2], cd[2]>>)
        bc == swap_if(bd[1] < ac[2], <<bd[1], ac[2]>>)
    IN  <<ac[1], bc[1], bc[2], bd[2]>>

is_balanced(shape) ==
    LET a == sorting_network(shape)[1]
        b == sorting_network(shape)[2]
        c == sorting_network(shape)[3]
        d == sorting_network(shape)[4]
    IN  \/ a = 4 /\ b = 3 /\ c = 3 /\ d = 3
        \/ a = 4 /\ b = 4 /\ c = 3 /\ d = 2
        \/ a = 5 /\ b = 3 /\ c = 3 /\ d = 2

calculate_hcp_and_shape(hand) ==
    [hcp |-> sum_hcp(hand.cards, 1), shape |-> get_suit_length(hand)]

-----------------------------------------------------------------------------
(* deal_generator.rs                                                       *)

DEFAULT_MAX_ATTEMPTS == 10000

\* Variant of seed_from_u64 for a generator that lives across the calls of
\* generate_deal: each earlier call has moved it on.
seed_from_u64_shared(seed) == (seed * 7919 + 1 + Len(log)) % 65537

\* The random number generator (rand, rand_chacha) is a stream of numbers
\* fixed by its starting state.  The stream below stands for it: seed_from_u64
\* turns a seed into a starting state, gen_range draws the next number of the
\* stream into 0..=high.  thread_rng starts the stream anywhere.
seed_from_u64(seed) == (seed * 7919 + 1) % 65537

next_state(rng) == (rng * 75 + 74) % 65537

gen_range(rng, high) ==
    [value |-> next_state(rng) % (high + 1), rng |-> next_state(rng)]

ThreadRngStates == 0..MaxSeed

\* Variant of shuffle_loop that copies buf[j] over buf[i] without moving
\* buf[i] to j.
RECURSIVE shuffle_loop_copy(_, _, _)
shuffle_loop_copy(buf, i, rng) ==
    IF i < 1 THEN [cards |-> buf, rng |-> rng]
    ELSE LET g == gen_range(rng, i) IN
         shuffle_loop_copy([buf EXCEPT ![i + 1] = buf[g.value + 1]],
                           i - 1, g.rng)

\* for i in (1..len).rev() { j = rng.gen_range(0..=i); buf.swap(i, j) }, from
\* index i down; buf is indexed from 0 in the source and from 1 here.
RECURSIVE shuffle_loop(_, _, _)
shuffle_loop(buf, i, rng) ==
    IF i < 1 THEN [cards |-> buf, rng |-> rng]
    ELSE LET g == gen_range(rng, i) IN
         shuffle_loop([buf EXCEPT ![i + 1] = buf[g.value + 1],
                                  ![g.value + 1] = buf[i + 1]],
                      i - 1, g.rng)

\* Returns the shuffled cards and the generator after the draws.
fisher_yates_shuffle(cards, rng) == shuffle_loop(cards, Len(cards) - 1, rng)

Deal(hands, dealer, vulnerability) ==
    [hands |-> hands, dealer |-> dealer, vulnerability |-> vulnerability]

deal_from_shuffled(cards, dealer, vulnerability) ==
    Deal([seat \in Seat |->
             CASE seat = "North" -> Hand(SubSeq(cards, 1, 13))
               [] seat = "East"  -> Hand(SubSeq(cards, 14, 26))
               [] seat = "South" -> Hand(SubSeq(cards, 27, 39))
               [] seat = "West"  -> Hand(SubSeq(cards, 40, 52))],
         dealer, vulnerability)

SeatConstraint(seat, min_hcp, max_hcp, balanced, min_length, max_length, min_length_any) ==
    [seat |-> seat, min_hcp |-> min_hcp, max_hcp |-> max_hcp,
     balanced |-> balanced, min_length |-> min_length,
     max_length |-> max_length, min_length_any |-> min_length_any]

\* A HashMap<Suit, u8> is a function on the suits it holds.
check_shape_constraint(shape, constraint) ==
    /\ constraint.balanced # None =>
           constraint.balanced[1] = is_balanced(shape)
    /\ constraint.min_length # None =>
           \A i \in 1..4 :
               SUIT_ORDER[i] \in DOMAIN constraint.min_length[1] =>
                   ~(shape[i] < constraint.min_length[1][SUIT_ORDER[i]])
    /\ constraint.max_length # None =>
           \A i \in 1..4 :
               SUIT_ORDER[i] \in DOMAIN constraint.max_length[1] =>
                   ~(shape[i] > constraint.max_length[1][SUIT_ORDER[i]])
    /\ constraint.min_length_any # None =>
           \E i \in 1..4 :
               /\ SUIT_ORDER[i] \in DOMAIN constraint.min_length_any[1]
               /\ shape[i] >= constraint.min_length_any[1][SUIT_ORDER[i]]

\* Variant of check_seat_constraint that never looks at the shape.
check_seat_constraint_hcp_only(hand, constraint) ==
    LET hcp == calculate_hcp(hand) IN
    /\ constraint.min_hcp # None => ~(hcp < constraint.min_hcp[1])
    /\ constraint.max_hcp # None => ~(hcp > constraint.max_hcp[1])

check_seat_constraint(hand, constraint) ==
    LET needs_hcp == constraint.min_hcp # None \/ constraint.max_hcp # None
        needs_shape == \/ constraint.balanced # None
                       \/ constraint.min_length # None
                       \/ constraint.max_length # None
                       \/ constraint.min_length_any # None
    IN  IF needs_hcp /\ needs_shape
        THEN LET both == calculate_hcp_and_shape(hand) IN
             /\ constraint.min_hcp # None => ~(both.hcp < constraint.min_hcp[1])
             /\ constraint.max_hcp # None => ~(both.hcp > constraint.max_hcp[1])
             /\ check_shape_constraint(both.shape, constraint)
        ELSE IF needs_hcp
        THEN LET hcp == calculate_hcp(hand) IN
             /\ constraint.min_hcp # None => ~(hcp < constraint.min_hcp[1])
             /\ constraint.max_hcp # None => ~(hcp > constraint.max_hcp[1])
        ELSE IF needs_shape
        THEN check_shape_constraint(get_suit_length(hand), constraint)
        ELSE TRUE

check_constraints(deal, constraints) ==
    \A k \in 1..Len(constraints.seats) :
        check_seat_constraint(deal.hands[constraints.seats[k].seat],
                              constraints.seats[k])

\* Variant of unwrap_or that always takes the default.
unwrap_or_default_only(option, default) == default

unwrap_or(option, default) == IF option = None THEN default ELSE option[1]

-----------------------------------------------------------------------------
(* Deal generation.  A caller hands generate_deal its constraints; the     *)
(* function draws its defaults and its generator, then examines one        *)
(* candidate deal per pass of its loop.                                    *)

DealConstraints(seats, vulnerability, dealer, max_attempts, seed) ==
    [seats |-> seats, vulnerability |-> vulnerability, dealer |-> dealer,
     max_attempts |-> max_attempts, seed |-> seed]

\* A seat constraint that names only some of its fields.
Unconstrained(seat) == SeatConstraint(seat, None, None, None, None, None, None)

\* The lists of seat constraints the caller sends.
SeatConstraintLists ==
    { <<>>,
      << [Unconstrained("South") EXCEPT !.min_hcp = Some(15),
                                        !.max_hcp = Some(17)] >>,
      << [Unconstrained("South") EXCEPT !.balanced = Some(TRUE)] >>,
      << [Unconstrained("North") EXCEPT
              !.min_hcp = Some(8),
              !.min_length = Some([suit \in {"Spades"} |-> 4]),
              !.max_length = Some([suit \in {"Hearts"} |-> 3])] >>,
      << [Unconstrained("East") EXCEPT
              !.min_length_any =
                  Some([suit \in {"Spades", "Hearts"} |-> 5])] >>,
      << [Unconstrained("West") EXCEPT !.balanced = Some(FALSE)],
         [Unconstrained("East") EXCEPT !.max_hcp = Some(12)] >>,
      << [Unconstrained("South") EXCEPT !.min_hcp = Some(38)] >> }

\* The dealer and vulnerability the caller sends: neither, or both.
Passthrough ==
    { [dealer |-> None, vulnerability |-> None],
      [dealer |-> Some("East"), vulnerability |-> Some("Both")] }

AttemptBudgets == {None} \cup {Some(n) : n \in 0..MaxAttempts}

Seeds == {None} \cup {Some(n) : n \in 0..MaxSeed}

InitDeal ==
    /\ heap = << <<>> >>
    /\ snaps = << [entries |-> 1, is_complete |-> FALSE] >>
    /\ last = NoResult
    /\ frame = NoFrame
    /\ log = <<>>
    /\ \E seats \in SeatConstraintLists, p \in Passthrough,
          max_attempts \in AttemptBudgets, seed \in Seeds :
           req = [op |-> "generate_deal",
                  constraints |->
                      DealConstraints(seats, p.vulnerability, p.dealer,
                                      max_attempts, seed)]

\* generate_deal up to its loop: the defaults and the generator.
StartGenerate ==
    /\ Idle
    /\ req.op = "generate_deal"
    /\ frame = NoFrame
    /\ \E rng \in (IF req.constraints.seed # None
                    THEN {seed_from_u64(req.constraints.seed[1])}
                    ELSE ThreadRngStates) :
           frame' = [pc |-> "loop",
                     dealer |-> unwrap_or(req.constraints.dealer, "North"),
                     vulnerability |->
                         unwrap_or(req.constraints.vulnerability, "None"),
                     max_attempts |->
                         unwrap_or(req.constraints.max_attempts,
                                   DEFAULT_MAX_ATTEMPTS),
                     rng |-> rng, attempt |-> 1, shuffled |-> <<>>]
    /\ UNCHANGED <<heap, snaps, last, req, log>>

\* Variant of Attempt that counts the passes of the loop from 0.
AttemptCountsFromZero ==
    /\ frame.pc = "loop"
    /\ frame.attempt <= frame.max_attempts
    /\ LET s == fisher_yates_shuffle(create_deck, frame.rng)
           deal == deal_from_shuffled(s.cards, frame.dealer,
                                      frame.vulnerability)
       IN  IF check_constraints(deal, req.constraints)
           THEN /\ last' = [NoResult EXCEPT
                              !.op = "generate_deal",
                              !.value = [deal |-> deal,
                                         iterations |-> frame.attempt - 1,
                                         relaxation_steps |-> 0]]
                /\ frame' = [frame EXCEPT !.pc = "done", !.rng = s.rng,
                                          !.shuffled = s.cards]
           ELSE /\ frame' = [frame EXCEPT !.attempt = @ + 1, !.rng = s.rng,
                                          !.shuffled = s.cards]
                /\ UNCHANGED last
    /\ UNCHANGED <<heap, snaps, req, log>>

\* One pass of the loop: shuffle, deal, check, and return the deal if it
\* passes the check.
Attempt ==
    /\ frame.pc = "loop"
    /\ frame.attempt <= frame.max_attempts
    /\ LET s == fisher_yates_shuffle(create_deck, frame.rng)
           deal == deal_from_shuffled(s.cards, frame.dealer,
                                      frame.vulnerability)
       IN  IF check_constraints(deal, req.constraints)
           THEN /\ last' = [NoResult EXCEPT
                              !.op = "generate_deal",
                              !.value = [deal |-> deal,
                                         iterations |-> frame.attempt,
                                         relaxation_steps |-> 0]]
                /\ frame' = [frame EXCEPT !.pc = "done", !.rng = s.rng,
                                          !.shuffled = s.cards]
           ELSE /\ frame' = [frame EXCEPT !.attempt = @ + 1, !.rng = s.rng,
                                          !.shuffled = s.cards]
                /\ UNCHANGED last
    /\ UNCHANGED <<heap, snaps, req, log>>

\* The loop ran out of attempts.
Exhausted ==
    /\ frame.pc = "loop"
    /\ frame.attempt > frame.max_attempts
    /\ last' = [NoResult EXCEPT !.op = "generate_deal", !.ok = FALSE,
                                !.err = "MaxAttemptsExceeded",
                                !.value = frame.max_attempts]
    /\ frame' = [frame EXCEPT !.pc = "done"]
    /\ UNCHANGED <<heap, snaps, req, log>>

NextDeal ==
    \/ StartGenerate
    \/ Attempt
    \/ Exhausted

SpecDeal == InitDeal /\ [][NextDeal]_vars

\* The 52 cards, the cards of a deal in the order North, East, South, West,
\* and the high-card points of a rank (Jack 1, Queen 2, King 3, Ace 4).
DeckCards ==
    {[suit |-> suit, rank |-> RankOrder[k]] : suit \in Suit, k \in 1..13}

Dealt(deal) ==
    deal.hands["North"].cards \o deal.hands["East"].cards
        \o deal.hands["South"].cards \o deal.hands["West"].cards

Points(rank) == Max({RankPlace(rank) - 9, 0})

RECURSIVE SumPoints(_)
SumPoints(cards) ==
    IF cards = <<>> THEN 0
    ELSE Points(Head(cards).rank) + SumPoints(Tail(cards))

Generated == last.op = "generate_deal"

\* C19: a deal returned by generate_deal has one hand per seat, each of 13
\* cards; the four hands hold each of the 52 cards exactly once and are, in
\* the order North, East, South, West, the permuted deck; their high-card
\* points total 40.
C19_DealIsPartition ==
    (Generated /\ last.ok) =>
        LET deal == last.value.deal IN
        /\ DOMAIN deal.hands = {"North", "East", "South", "West"}
        /\ \A seat \in DOMAIN deal.hands : Len(deal.hands[seat].cards) = 13
        /\ Cardinality(DeckCards) = 52
        /\ \A card \in DeckCards :
               Cardinality({i \in 1..Len(Dealt(deal)) :
                               Dealt(deal)[i] = card}) = 1
        /\ Dealt(deal) = frame.shuffled
        /\ SumPoints(Dealt(deal)) = 40

\* generate_deal has returned a deal whose North hand is not the top of the
\* unshuffled deck.
C19_Witness ==
    /\ Generated
    /\ last.ok
    /\ last.value.deal.hands["North"].cards # SubSeq(create_deck, 1, 13)

\* The attempt budget of the request, and what a hand must be to meet a seat
\* constraint, as the specification words them.
Budget ==
    IF req.constraints.max_attempts = <<>> THEN 10000
    ELSE req.constraints.max_attempts[1]

SuitCount(hand, suit) ==
    Cardinality({i \in 1..Len(hand.cards) : hand.cards[i].suit = suit})

\* Number of suits of a hand that hold n cards.
SuitsOfLength(hand, n) ==
    Cardinality({suit \in Suit : SuitCount(hand, suit) = n})

\* The hand is 4-3-3-3, 4-4-3-2 or 5-3-3-2.
BalancedHand(hand) ==
    \/ SuitsOfLength(hand, 4) = 1 /\ SuitsOfLength(hand, 3) = 3
    \/ /\ SuitsOfLength(hand, 4) = 2 /\ SuitsOfLength(hand, 3) = 1
       /\ SuitsOfLength(hand, 2) = 1
    \/ /\ SuitsOfLength(hand, 5) = 1 /\ SuitsOfLength(hand, 3) = 2
       /\ SuitsOfLength(hand, 2) = 1

Meets(hand, sc) ==
    /\ sc.min_hcp # <<>> => SumPoints(hand.cards) >= sc.min_hcp[1]
    /\ sc.max_hcp # <<>> => SumPoints(hand.cards) <= sc.max_hcp[1]
    /\ sc.balanced # <<>> => (sc.balanced[1] <=> BalancedHand(hand))
    /\ sc.min_length # <<>> =>
           \A suit \in DOMAIN sc.min_length[1] :
               SuitCount(hand, suit) >= sc.min_length[1][suit]
    /\ sc.max_length # <<>> =>
           \A suit \in DOMAIN sc.max_length[1] :
               SuitCount(hand, suit) <= sc.max_length[1][suit]
    /\ sc.min_length_any # <<>> =>
           \E suit \in DOMAIN sc.min_length_any[1] :
               SuitCount(hand, suit) >= sc.min_length_any[1][suit]

MeetsAll(hands, seats) ==
    \A k \in 1..Len(seats) : Meets(hands[seats[k].seat], seats[k])

\* The hands of the candidate the loop examined last.
Candidate ==
    [seat \in Seat |->
        [cards |-> SubSeq(frame.shuffled, 13 * seat_index(seat) + 1,
                          13 * seat_index(seat) + 13)]]

\* generate_deal has examined no more candidates than its budget, every
\* candidate it passed over misses a constraint, a deal it returns meets
\* them all, and the error it returns comes after the whole budget and
\* carries it.
RejectionSampling ==
    /\ frame.pc = "loop" =>
           /\ frame.attempt - 1 <= Budget
           /\ frame.attempt > 1 => ~MeetsAll(Candidate, req.constraints.seats)
    /\ (Generated /\ last.ok) =>
           /\ MeetsAll(last.value.deal.hands, req.constraints.seats)
           /\ last.value.iterations \in 1..Budget
    /\ (Generated /\ ~last.ok) =>
           /\ last.err = "MaxAttemptsExceeded"
           /\ last.value = Budget
           /\ frame.attempt - 1 = Budget
           /\ Budget > 0 => ~MeetsAll(Candidate, req.constraints.seats)
    /\ ( /\ Generated /\ last.ok
         /\ Len(req.constraints.seats) = 1
         /\ req.constraints.seats[1].seat = "South"
         /\ req.constraints.seats[1].min_hcp = <<15>>
         /\ req.constraints.seats[1].max_hcp = <<17>> )
           => SumPoints(last.value.deal.hands["South"].cards) \in 15..17

\* The steps generate_deal has left at most: its start, one pass of the loop
\* for each attempt of the budget not yet made, and its return.
Remaining ==
    IF Generated THEN 0
    ELSE IF frame.pc = "loop" THEN Budget - frame.attempt + 2
    ELSE Budget + 2

\* C20: generate_deal always terminates, after examining at most
\* max_attempts candidates (10,000 by default): every step it takes uses up
\* one of the steps it has left; it returns a deal that meets every seat
\* constraint, or MaxAttemptsExceeded carrying max_attempts when no candidate
\* of the budget met them; it never returns a deal that misses one.
C20_BoundedRejectionSampling ==
    /\ []RejectionSampling
    /\ [][Remaining' < Remaining /\ Remaining' >= 0]_vars

\* generate_deal has returned a deal for South's 15 to 17 points after
\* passing over at least one candidate.
C20_Witness ==
    /\ Generated
    /\ last.ok
    /\ req.constraints.seats # <<>>
    /\ req.constraints.seats[1].min_hcp = <<15>>
    /\ last.value.iterations > 1

\* C21: a successful generate_deal returns the first candidate of its shuffle
\* sequence that meets the constraints: a pass of the loop that goes on has
\* examined a candidate that misses one, the pass that returns has examined
\* a candidate that meets them all and returns that candidate with the number
\* of the pass as iterations (1 for the first shuffle, never above
\* max_attempts) and with relaxation_steps 0.
C21_FirstSatisfyingCandidate ==
    [][frame.pc = "loop" =>
          /\ frame'.pc = "loop" =>
                 /\ frame'.attempt = frame.attempt + 1
                 /\ frame'.shuffled # frame.shuffled
                 /\ ~MeetsAll(Candidate', req.constraints.seats)
          /\ (Generated' /\ last'.ok) =>
                 /\ MeetsAll(Candidate', req.constraints.seats)
                 /\ last'.value.deal.hands = Candidate'
                 /\ last'.value.iterations = frame.attempt
                 /\ last'.value.iterations \in 1..Budget
                 /\ frame.shuffled = <<>> <=> last'.value.iterations = 1
                 /\ last'.value.relaxation_steps = 0]_vars

\* generate_deal has returned the third candidate as a balanced South hand.
C21_Witness ==
    /\ Generated
    /\ last.ok
    /\ req.constraints.seats # <<>>
    /\ req.constraints.seats[1].balanced = <<TRUE>>
    /\ last.value.iterations = 3

\* A finished generate_deal call returned its first candidate, with the
\* requested dealer and vulnerability (North and None when not given).
FirstCandidateReturned ==
    /\ last.ok
    /\ last.value.iterations = 1
    /\ last.value.relaxation_steps = 0
    /\ last.value.deal.dealer =
           (IF req.constraints.dealer = <<>> THEN "North"
            ELSE req.constraints.dealer[1])
    /\ last.value.deal.vulnerability =
           (IF req.constraints.vulnerability = <<>> THEN "None"
            ELSE req.constraints.vulnerability[1])

\* C22 as stated: with no seat constraints generate_deal succeeds for every
\* seed, dealer, vulnerability and attempt budget, with iterations = 1 and
\* relaxation_steps = 0, and the deal carries the requested dealer and
\* vulnerability.  An attempt budget of 0 refutes it.
C22_UnconstrainedAlwaysSucceeds ==
    (Generated /\ req.constraints.seats = <<>>) => FirstCandidateReturned

\* C22, amended: with no seat constraints and an attempt budget of at least 1
\* (or none given) generate_deal succeeds with iterations = 1 and
\* relaxation_steps = 0, and the deal carries the requested dealer and
\* vulnerability (North and None when not given); with an attempt budget of
\* 0 it examines no candidate and fails with MaxAttemptsExceeded(0).
C22_UnconstrainedSucceedsWithinBudget ==
    (Generated /\ req.constraints.seats = <<>>) =>
        IF Budget >= 1
        THEN FirstCandidateReturned
        ELSE /\ ~last.ok
             /\ last.err = "MaxAttemptsExceeded"
             /\ last.value = 0
             /\ frame.shuffled = <<>>

\* generate_deal without seat constraints has returned a deal for dealer East
\* with both sides vulnerable.
C22_Witness ==
    /\ Generated
    /\ req.constraints.seats = <<>>
    /\ req.constraints.dealer = <<"East">>
    /\ last.ok
    /\ last.value.deal.dealer = "East"
    /\ last.value.deal.vulnerability = "Both"

-----------------------------------------------------------------------------
(* A caller of generate_deal that calls it several times and keeps every   *)
(* outcome.                                                                *)

\* The number of calls the caller makes.
MaxCalls == 3

\* The attempt budget of the repeated calls.
RepeatBudget == 2

RepeatSeatLists ==
    { <<>>,
      <<SeatConstraint("South", None, None, Some(TRUE), None, None, None)>> }

RepeatConstraints ==
    { DealConstraints(seats, None, None, Some(RepeatBudget), seed) :
          seats \in RepeatSeatLists, seed \in Seeds }

InitRepeat ==
    /\ heap = << <<>> >>
    /\ snaps = << [entries |-> 1, is_complete |-> FALSE] >>
    /\ last = NoResult
    /\ frame = NoFrame
    /\ log = <<>>
    /\ \E constraints \in RepeatConstraints :
           req = [op |-> "generate_deal", constraints |-> constraints]

\* generate_deal returns: its locals are dropped, the caller keeps the
\* outcome and makes up its next call.
Return ==
    /\ frame.pc = "done"
    /\ Len(log) < MaxCalls
    /\ log' = Append(log, [constraints |-> req.constraints, outcome |-> last])
    /\ last' = NoResult
    /\ frame' = NoFrame
    /\ IF Len(log) + 1 < MaxCalls
       THEN \E constraints \in RepeatConstraints :
                req' = [op |-> "generate_deal", constraints |-> constraints]
       ELSE req' = NoRequest
    /\ UNCHANGED <<heap, snaps>>

NextRepeat ==
    \/ StartGenerate
    \/ Attempt
    \/ Exhausted
    \/ Return

SpecRepeat == InitRepeat /\ [][NextRepeat]_vars

\* C23: two calls of generate_deal with the same seed and the same
\* constraints return the same outcome, the same deal (so the same per-seat
\* card sequences) with the same iterations or the same error, whatever
\* calls were made before or between them.
C23_SeededDeterminism ==
    \A i, j \in 1..Len(log) :
        (log[i].constraints = log[j].constraints
             /\ log[i].constraints.seed # <<>>)
            => log[i].outcome = log[j].outcome

\* The caller made a seeded call that returned a deal, then a different
\* call without a seed, then the first call again.
C23_Witness ==
    /\ Len(log) = 3
    /\ log[1].constraints = log[3].constraints
    /\ log[1].constraints.seed # <<>>
    /\ log[1].constraints.seats # <<>>
    /\ log[2].constraints.seed = <<>>
    /\ log[2].constraints.seats = <<>>
    /\ log[1].outcome.ok
    /\ log[3].outcome.value.deal.hands["South"] =
           log[1].outcome.value.deal.hands["South"]

-----------------------------------------------------------------------------
(* constants.rs: create_hand.                                              *)

\* create_hand: the only test is the number of cards.
create_hand(cards) ==
    IF Len(cards) # 13
    THEN [NoResult EXCEPT !.op = "create_hand", !.ok = FALSE,
                          !.err = "InvalidHandSize", !.value = Len(cards)]
    ELSE [NoResult EXCEPT !.op = "create_hand", !.value = Hand(cards)]

\* The longest card vector handed to create_hand.
MaxHandSize == 14

\* The first slice of the deck starts at one of these many places.
MaxSliceStart == 3

\* Card vectors: a slice of the deck, as it is or with the card at one place
\* written over another place of the slice.
CardVectors ==
    { [k \in 1..len |->
          IF k = to THEN create_deck[start + from - 1]
          ELSE create_deck[start + k - 1]] :
        <<len, start, from, to>> \in
            { t \in (0..MaxHandSize) \X (1..MaxSliceStart)
                      \X (0..MaxHandSize) \X (0..MaxHandSize) :
                  \/ t[3] = 0 /\ t[4] = 0
                  \/ 1 <= t[3] /\ t[3] < t[4] /\ t[4] <= t[1] } }

InitCreateHand ==
    /\ heap = << <<>> >>
    /\ snaps = << [entries |-> 1, is_complete |-> FALSE] >>
    /\ last = NoResult
    /\ frame = NoFrame
    /\ log = <<>>
    /\ \E cards \in CardVectors : req = [op |-> "create_hand", cards |-> cards]

CreateHand ==
    /\ Idle
    /\ req.op = "create_hand"
    /\ last' = create_hand(req.cards)
    /\ UNCHANGED <<heap, snaps, req, frame, log>>

NextCreateHand == CreateHand

SpecCreateHand == InitCreateHand /\ [][NextCreateHand]_vars

\* No card appears twice in the sequence.
UniqueCards(cards) ==
    \A i, j \in 1..Len(cards) : cards[i] = cards[j] => i = j

\* C24: create_hand fails with InvalidHandSize, carrying the number of cards,
\* unless it is given exactly 13 cards, and every Hand it returns has exactly
\* 13 cards, no card twice.
C24_CreateHand ==
    last.op = "create_hand" =>
        /\ Len(req.cards) # 13 =>
               /\ ~last.ok
               /\ last.err = "InvalidHandSize"
               /\ last.value = Len(req.cards)
        /\ last.ok =>
               /\ Len(last.value.cards) = 13
               /\ UniqueCards(last.value.cards)

-----------------------------------------------------------------------------
(* hand_evaluator.rs: is_balanced over every suit-length vector.           *)

\* The longest suit of a suit-length vector.
MaxSuitLength == 13

SuitLengths ==
    (0..MaxSuitLength) \X (0..MaxSuitLength)
        \X (0..MaxSuitLength) \X (0..MaxSuitLength)

InitBalanced ==
    /\ heap = << <<>> >>
    /\ snaps = << [entries |-> 1, is_complete |-> FALSE] >>
    /\ last = NoResult
    /\ frame = NoFrame
    /\ log = <<>>
    /\ \E shape \in SuitLengths : req = [op |-> "is_balanced", shape |-> shape]

IsBalanced ==
    /\ Idle
    /\ req.op = "is_balanced"
    /\ last' = [NoResult EXCEPT !.op = "is_balanced",
                                !.value = is_balanced(req.shape)]
    /\ UNCHANGED <<heap, snaps, req, frame, log>>

NextBalanced == IsBalanced

SpecBalanced == InitBalanced /\ [][NextBalanced]_vars

\* The two vectors hold the same lengths, each as many times.
SameLengths(v, w) ==
    \A n \in 0..(MaxSuitLength + 1) :
        Cardinality({i \in 1..4 : v[i] = n})
            = Cardinality({i \in 1..4 : w[i] = n})

BalancedPatterns == { <<4, 3, 3, 3>>, <<4, 4, 3, 2>>, <<5, 3, 3, 2>> }

\* C25: for every vector of four suit lengths, each 0..13, in any order of
\* the suits, is_balanced is true exactly when the lengths are those of
\* 4-3-3-3, 4-4-3-2 or 5-3-3-2, and the five conditional swaps of
\* is_balanced put the vector in descending order.
C25_Balanced ==
    last.op = "is_balanced" =>
        LET sorted == sorting_network(req.shape) IN
        /\ sorted[1] >= sorted[2]
        /\ sorted[2] >= sorted[3]
        /\ sorted[3] >= sorted[4]
        /\ SameLengths(sorted, req.shape)
        /\ last.value <=>
               \E pattern \in BalancedPatterns :
                   SameLengths(req.shape, pattern)
        /\ last.value <=> sorted \in BalancedPatterns

\* is_balanced was true of a vector whose lengths are neither ascending nor
\* descending: spades 3, hearts 5, diamonds 2, clubs 3.
C25_Witness ==
    /\ last.op = "is_balanced"
    /\ req.shape = <<3, 5, 2, 3>>
    /\ last.value = TRUE

-----------------------------------------------------------------------------
(* dds.rs: the wrapper around the external double dummy solver.  The       *)
(* solver's types are written as the header of dds.rs gives them: seats    *)
(* N=0, E=1, S=2, W=3, suits C=0, D=1, H=2, S=3, strains C=0 .. NT=4,      *)
(* ranks 2..14, a Holding a set of ranks.                                  *)
(* What the solver answers is not decided by this crate: each call may     *)
(* fail or return any value of its type.                                   *)

rank_to_u8(rank) ==
    CASE rank = "Two"   -> 2
      [] rank = "Three" -> 3
      [] rank = "Four"  -> 4
      [] rank = "Five"  -> 5
      [] rank = "Six"   -> 6
      [] rank = "Seven" -> 7
      [] rank = "Eight" -> 8
      [] rank = "Nine"  -> 9
      [] rank = "Ten"   -> 10
      [] rank = "Jack"  -> 11
      [] rank = "Queen" -> 12
      [] rank = "King"  -> 13
      [] rank = "Ace"   -> 14

to_dds_suit(suit) ==
    CASE suit = "Clubs"    -> 0
      [] suit = "Diamonds" -> 1
      [] suit = "Hearts"   -> 2
      [] suit = "Spades"   -> 3

to_dds_seat(seat) ==
    CASE seat = "North" -> 0
      [] seat = "East"  -> 1
      [] seat = "South" -> 2
      [] seat = "West"  -> 3

from_dds_strain(strain) ==
    CASE strain = 0 -> "Clubs"
      [] strain = 1 -> "Diamonds"
      [] strain = 2 -> "Hearts"
      [] strain = 3 -> "Spades"
      [] strain = 4 -> "NoTrump"

from_dds_seat(seat) ==
    CASE seat = 0 -> "North"
      [] seat = 1 -> "East"
      [] seat = 2 -> "South"
      [] seat = 3 -> "West"

\* Result<T, E>
Ok(value) == [ok |-> TRUE, value |-> value]

Err(error) == [ok |-> FALSE, value |-> error]

\* The places in SEATS of the seats that have no hand in the deal.
MissingSeats(deal) == {i \in 1..4 : SEATS[i] \notin DOMAIN deal.hands}

\* to_dds_deal: the first seat without a hand is an error; a card sets the
\* bit of its rank in the holding of its suit.
to_dds_deal(deal) ==
    IF MissingSeats(deal) # {}
    THEN Err(<<"Missing hand for seat",
               SEATS[CHOOSE i \in MissingSeats(deal) :
                         \A j \in MissingSeats(deal) : i <= j]>>)
    ELSE Ok([dds_seat \in 0..3 |->
                [dds_suit \in 0..3 |->
                    LET hand == deal.hands[from_dds_seat(dds_seat)] IN
                    {rank_to_u8(hand.cards[k].rank) :
                        k \in {n \in 1..Len(hand.cards) :
                                  to_dds_suit(hand.cards[n].suit) = dds_suit}}]])

STRAINS == <<0, 1, 2, 3, 4>>

from_tricks_table(table) ==
    [seat \in {SEATS[i] : i \in 1..4} |->
        [strain \in {from_dds_strain(STRAINS[i]) : i \in 1..5} |->
            table[CHOOSE n \in 0..4 : from_dds_strain(n) = strain]
                 [to_dds_seat(seat)]]]

RECURSIVE total_cards(_, _)
total_cards(deal, i) ==
    IF i > 4 THEN 0
    ELSE (IF SEATS[i] \in DOMAIN deal.hands
          THEN Len(deal.hands[SEATS[i]].cards) ELSE 0)
         + total_cards(deal, i + 1)

ParContract(level, strain, declarer, doubled, overtricks) ==
    [level |-> level, strain |-> strain, declarer |-> declarer,
     doubled |-> doubled, overtricks |-> overtricks]

ParInfo(par_result) ==
    [score |-> par_result.score,
     contracts |->
         [k \in 1..Len(par_result.contracts) |->
             LET contract == par_result.contracts[k][1]
                 declarer == par_result.contracts[k][2]
                 overtricks == par_result.contracts[k][3]
             IN  ParContract(contract.bid.level,
                             from_dds_strain(contract.bid.strain),
                             from_dds_seat(declarer),
                             contract.penalty # "None",
                             overtricks)]]

DDSolution(tricks, par) == [tricks |-> tricks, par |-> par]

\* Variant of solve_deal_with_par that hands on the error of calculate_par.
solve_deal_with_par_strict(deal, solve_deal, calculate_par) ==
    IF total_cards(deal, 1) # 52
    THEN Err(<<"Deal has {total_cards} cards, expected 52",
               total_cards(deal, 1)>>)
    ELSE IF ~to_dds_deal(deal).ok THEN to_dds_deal(deal)
    ELSE IF ~solve_deal.ok
    THEN Err(<<"solve_deal failed: {e}", solve_deal.value>>)
    ELSE IF ~calculate_par.ok
    THEN Err(<<"calculate_par failed: {e}", calculate_par.value>>)
    ELSE Ok(DDSolution(from_tricks_table(solve_deal.value),
                       Some(ParInfo(calculate_par.value))))

\* solve_deal_with_par, given what solver::solve_deal and
\* solver::calculate_par answer when they are called.
solve_deal_with_par(deal, solve_deal, calculate_par) ==
    IF total_cards(deal, 1) # 52
    THEN Err(<<"Deal has {total_cards} cards, expected 52",
               total_cards(deal, 1)>>)
    ELSE IF ~to_dds_deal(deal).ok THEN to_dds_deal(deal)
    ELSE IF ~solve_deal.ok
    THEN Err(<<"solve_deal failed: {e}", solve_deal.value>>)
    ELSE Ok(DDSolution(from_tricks_table(solve_deal.value),
                       IF calculate_par.ok
                       THEN Some(ParInfo(calculate_par.value))
                       ELSE None))

-----------------------------------------------------------------------------
(* Callers of solve_deal_with_par.                                         *)

\* The solver answers with one of this many trick tables, and one more.
MaxTricksTables == 1

\* TricksTable: per strain, per seat, a number of tricks.
TricksTables ==
    { [strain \in 0..4 |->
          [seat \in 0..3 |->
              IF seat % 2 = 0 THEN (7 * k + strain) % 14
              ELSE 13 - ((7 * k + strain) % 14)]] :
        k \in 0..MaxTricksTables }

\* Par { score, contracts: Vec<(Contract, Seat, i8)> }
Pars ==
    { [score |-> 0, contracts |-> <<>>],
      [score |-> 400,
       contracts |-> << <<[bid |-> [level |-> 3, strain |-> 4],
                           penalty |-> "None"], 0, 0>> >>],
      [score |-> 0 - 100,
       contracts |-> << <<[bid |-> [level |-> 4, strain |-> 3],
                           penalty |-> "Doubled"], 1, 0 - 1>> >>] }

SolveDealOutcomes == {Err("SolverError")} \cup {Ok(t) : t \in TricksTables}

CalculateParOutcomes == {Err("SystemError")} \cup {Ok(par) : par \in Pars}

HandLengths == {12, 13, 14, 26}

\* The deck cut into hands of the given lengths for the seats present, one
\* after the other.
CutDeal(present, lengths) ==
    Deal([seat \in present |->
             LET i == to_dds_seat(seat) + 1
                 before == {j \in 1..(i - 1) : SEATS[j] \in present}
                 start == IF before = {} THEN 0
                          ELSE IF Cardinality(before) = 1
                          THEN lengths[CHOOSE j \in before : TRUE]
                          ELSE IF Cardinality(before) = 2
                          THEN LET a == CHOOSE j \in before : TRUE
                                   b == CHOOSE j \in before : j # a
                               IN  lengths[a] + lengths[b]
                          ELSE lengths[1] + lengths[2] + lengths[3]
             IN  Hand([k \in 1..lengths[i] |->
                          create_deck[((start + k - 1) % 52) + 1]])],
         "North", "None")

SolveDeals ==
    { CutDeal(present, lengths) :
        present \in SUBSET {SEATS[i] : i \in 1..4},
        lengths \in HandLengths \X HandLengths \X HandLengths \X HandLengths }

InitSolve ==
    /\ heap = << <<>> >>
    /\ snaps = << [entries |-> 1, is_complete |-> FALSE] >>
    /\ last = NoResult
    /\ frame = NoFrame
    /\ log = <<>>
    /\ \E deal \in SolveDeals : req = [op |-> "solve_deal", deal |-> deal]

\* solve_deal_with_par with the answers of the solver; `frame` keeps the
\* answers of the calls that were made.
SolveDealWithPar ==
    /\ Idle
    /\ req.op = "solve_deal"
    /\ frame = NoFrame
    /\ \E solve_deal \in SolveDealOutcomes,
          calculate_par \in CalculateParOutcomes :
           LET result == solve_deal_with_par(req.deal, solve_deal,
                                             calculate_par)
               solver_called == /\ total_cards(req.deal, 1) = 52
                                /\ to_dds_deal(req.deal).ok
           IN  /\ last' = [NoResult EXCEPT !.op = "solve_deal",
                                           !.ok = result.ok,
                                           !.err = IF result.ok THEN "-"
                                                   ELSE "DdsError",
                                           !.value = result.value]
               /\ frame' = [pc |-> "done",
                            tricks_table |-> IF solver_called
                                             THEN Some(solve_deal) ELSE None,
                            par |-> IF solver_called /\ solve_deal.ok
                                    THEN Some(calculate_par) ELSE None]
    /\ UNCHANGED <<heap, snaps, req, log>>

NextSolve == SolveDealWithPar

SpecSolve == InitSolve /\ [][NextSolve]_vars

\* The trick table names every seat and, for each, every strain, with the
\* number the solver gave.
FullTable(tricks, table) ==
    /\ DOMAIN tricks = {"North", "East", "South", "West"}
    /\ \A seat \in DOMAIN tricks :
           /\ DOMAIN tricks[seat]
                  = {"Clubs", "Diamonds", "Hearts", "Spades", "NoTrump"}
           /\ tricks[seat]["Clubs"] = table[0][to_dds_seat(seat)]
           /\ tricks[seat]["Diamonds"] = table[1][to_dds_seat(seat)]
           /\ tricks[seat]["Hearts"] = table[2][to_dds_seat(seat)]
           /\ tricks[seat]["Spades"] = table[3][to_dds_seat(seat)]
           /\ tricks[seat]["NoTrump"] = table[4][to_dds_seat(seat)]

\* Number of cards of the deal handed to solve_deal_with_par.
CardsHeld ==
    LET hands == req.deal.hands
        count(seat) == IF seat \in DOMAIN hands THEN Len(hands[seat].cards)
                       ELSE 0
    IN  count("North") + count("East") + count("South") + count("West")

\* C26: when the solver returns a trick table and the par calculation
\* returns an error, solve_deal_with_par succeeds with the full per-seat
\* per-strain trick table and no par; it fails, with a solver error, only
\* when the deal does not hold 52 cards, a seat has no hand, or the solve of
\* the trick table fails.
C26_ParDegradation ==
    last.op = "solve_deal" =>
        /\ (frame.tricks_table # <<>> /\ frame.tricks_table[1].ok) =>
               /\ last.ok
               /\ FullTable(last.value.tricks, frame.tricks_table[1].value)
               /\ frame.par # <<>>
               /\ last.value.par = <<>> <=> ~frame.par[1].ok
               /\ frame.par[1].ok =>
                      last.value.par[1].score = frame.par[1].value.score
        /\ ~last.ok <=>
               \/ CardsHeld # 52
               \/ DOMAIN req.deal.hands # {"North", "East", "South", "West"}
               \/ frame.tricks_table # <<>> /\ ~frame.tricks_table[1].ok
        /\ ~last.ok => last.err = "DdsError"

\* The solver returned a trick table, the par calculation failed, and the
\* call succeeded without par.
C26_Witness ==
    /\ last.op = "solve_deal"
    /\ frame.tricks_table # <<>>
    /\ frame.tricks_table[1].ok
    /\ frame.par # <<>>
    /\ ~frame.par[1].ok
    /\ last.ok
    /\ last.value.par = <<>>
    /\ last.value.tricks["North"]["NoTrump"] = 4

-----------------------------------------------------------------------------
(* Auction engine: the stored flag, termination, doubles.                  *)

\* C27: in every auction reached from the empty auction by successful
\* add_call operations the stored is_complete flag equals is_auction_complete
\* of the stored entries; so on an auction whose entries satisfy the
\* completion rule is_legal_call accepts no call of any seat, get_legal_calls
\* lists none and add_call appends none.
C27_StoredFlagIsComputed ==
    /\ \A i \in 1..Len(snaps) :
           snaps[i].is_complete = is_auction_complete(Deref(heap, snaps[i]))
    /\ (Idle /\ is_auction_complete(auction)) =>
           /\ \A entry \in InputEntries :
                  /\ ~is_legal_call(auction, entry.call, entry.seat)
                  /\ ~add_call(heap, cur, entry).ok
           /\ \A seat \in Seat : get_legal_calls(auction, seat) = <<>>
    /\ (last.op = "get_legal_calls" /\ is_auction_complete(auction)) =>
           last.calls = <<>>

\* get_legal_calls was asked on an auction of four passes, whose stored flag
\* is set, and listed no call.
C27_Witness ==
    /\ last.op = "get_legal_calls"
    /\ Len(auction.entries) = 4
    /\ NonPassIdx(auction.entries) = {}
    /\ auction.is_complete
    /\ last.calls = <<>>

-----------------------------------------------------------------------------
(* A caller that climbs: it opens with any Bid, answers a Bid with the     *)
(* cheapest Bid above it or with Pass, and after a Pass only passes.  The  *)
(* level of a Bid is a u8 that add_call takes as it comes.                 *)

\* The highest level the climbing caller bids.
MaxLadderLevel == 8

LadderBids == {Bid(l, s) : l \in 1..MaxLadderLevel, s \in BidSuit}

\* b is above a, and no Bid of the caller lies between them.
CheapestAbove(b, a) ==
    /\ compare_bids(b.level, b.strain, a.level, a.strain) = "Greater"
    /\ \A c \in LadderBids :
           compare_bids(c.level, c.strain, a.level, a.strain) = "Greater"
               => compare_bids(c.level, c.strain, b.level, b.strain) # "Less"

AddCallLadder(call) ==
    LET entries == auction.entries
        entry == AuctionEntry(TurnAt(entries, Len(entries) + 1), call)
        r == add_call(heap, cur, entry)
    IN  /\ Idle
        /\ call.type = "Bid" =>
               \/ entries = <<>>
               \/ /\ entries # <<>>
                  /\ entries[Len(entries)].call.type = "Bid"
                  /\ CheapestAbove(call, entries[Len(entries)].call)
        /\ heap' = r.heap
        /\ snaps' = IF r.ok THEN Append(snaps, r.value) ELSE snaps
        /\ last' = [NoResult EXCEPT !.op = "add_call", !.ok = r.ok,
                                    !.err = r.err, !.msg = r.msg]
        /\ UNCHANGED <<req, frame, log>>

NextLadder ==
    \/ \E call \in LadderBids \cup {Pass} : AddCallLadder(call)
    \/ Respond

SpecLadder == Init /\ [][NextLadder]_vars

\* The entries followed by n passes.
RECURSIVE WithPasses(_, _)
WithPasses(entries, n) ==
    IF n = 0 THEN entries
    ELSE WithPasses(Append(entries, AuctionEntry("North", Pass)), n - 1)

\* Number of passes the entries end with.
RECURSIVE TrailingPasses(_)
TrailingPasses(entries) ==
    IF entries = <<>> \/ entries[Len(entries)].call.type # "Pass" THEN 0
    ELSE 1 + TrailingPasses(SubSeq(entries, 1, Len(entries) - 1))

\* C28: an auction built by add_call holds at most 35 Bid entries and at
\* most 319 entries, never ends in more than three passes after a non-pass
\* call or four at the start, and while it is incomplete it is complete
\* before a fifth further pass (three passes after a non-pass call, four at
\* the start); so no sequence of successful add_call operations goes on for
\* ever.
C28_AuctionTerminates ==
    \A i \in 1..Len(snaps) :
        LET entries == Deref(heap, snaps[i]).entries IN
        /\ Cardinality(BidIdx(entries)) <= 35
        /\ Len(entries) <= 319
        /\ TrailingPasses(entries)
               <= (IF NonPassIdx(entries) = {} THEN 4 ELSE 3)
        /\ ~snaps[i].is_complete =>
               \E n \in 1..4 : CompletionRule(WithPasses(entries, n))

\* The non-pass calls after entry i and before the next Bid (or the end), in
\* order.
RECURSIVE AnswersTo(_, _)
AnswersTo(entries, i) ==
    IF i >= Len(entries) \/ entries[i + 1].call.type = "Bid" THEN <<>>
    ELSE IF entries[i + 1].call.type = "Pass" THEN AnswersTo(entries, i + 1)
    ELSE <<entries[i + 1]>> \o AnswersTo(entries, i + 1)

\* C29: in every auction built by add_call the non-pass calls between a Bid
\* and the next Bid (or the end) are nothing, or one Double by the side
\* opposing the bidder, or that Double and then one Redouble by the bidder's
\* side, and no Double or Redouble comes before the first Bid; so a contract
\* returned by get_contract is never doubled and redoubled at once, its
\* Double or Redouble answers the final Bid, and the doubler is on the side
\* opposing the declarer.
C29_DoubleStructure ==
    /\ \A n \in 1..Len(snaps) :
           LET entries == Deref(heap, snaps[n]).entries IN
           /\ AnswersTo(entries, 0) = <<>>
           /\ \A i \in BidIdx(entries) :
                  LET answers == AnswersTo(entries, i) IN
                  /\ Len(answers) <= 2
                  /\ Len(answers) >= 1 =>
                         /\ answers[1].call.type = "Double"
                         /\ Side(answers[1].seat) # Side(entries[i].seat)
                  /\ Len(answers) = 2 =>
                         /\ answers[2].call.type = "Redouble"
                         /\ Side(answers[2].seat) = Side(entries[i].seat)
    /\ (last.op = "get_contract" /\ last.contract # <<>>) =>
           LET contract == last.contract[1]
               answers == AnswersTo(auction.entries,
                                    Max(BidIdx(auction.entries)))
           IN  /\ ~(contract.doubled /\ contract.redoubled)
               /\ contract.doubled <=> Len(answers) = 1
               /\ contract.redoubled <=> Len(answers) = 2
               /\ Len(answers) >= 1 =>
                      Side(answers[1].seat) # Side(contract.declarer)

\* get_contract has returned a redoubled contract: a Bid was doubled and the
\* Double redoubled.
C29_Witness ==
    /\ last.op = "get_contract"
    /\ last.contract # <<>>
    /\ last.contract[1].redoubled
    /\ ~last.contract[1].doubled
    /\ Len(AnswersTo(auction.entries, Max(BidIdx(auction.entries)))) = 2

-----------------------------------------------------------------------------
(* Scoring: the score as a function of the tricks won.                     *)

\* C30: for every contract of level 1 to 7 and every vulnerability the score
\* is positive when tricks_won reaches level + 6 and negative below, never
\* zero, and with one more trick (up to 13) the score is strictly higher.
C30_ScoreIncreasesWithTricks ==
    (Scored /\ req.tricks_won <= 13) =>
        /\ Made => last.value > 0
        /\ ~Made => last.value < 0
        /\ last.value # 0
        /\ req.tricks_won < 13 =>
               calculate_score(req.contract, req.tricks_won + 1,
                               req.vulnerability) > last.value
        /\ \A more \in (req.tricks_won + 1)..13 :
               calculate_score(req.contract, more, req.vulnerability)
                   > last.value

\* A doubled grand slam went one down and scored below zero, below what the
\* thirteenth trick brings.
C30_Witness ==
    /\ Scored
    /\ ScoreCase(7, "NoTrump", TRUE, 12)
    /\ last.value < 0
    /\ calculate_score(req.contract, 13, req.vulnerability) > 0

====
